---- MODULE Spec2Model ----
(***************************************************************************)
(* State-machine model of the JSON-RPC dispatch core of src/rpc/server.cpp *)
(* (Bitcoin ABC): the warmup gate, the static table CRPCTable and the      *)
(* dynamic registry of RPCServer, named-argument transformation, the       *)
(* execution tracker and single/batch execution.                           *)
(*                                                                         *)
(* Conventions.  A std::string that the code inspects character by         *)
(* character (argument names, object keys) is a sequence of one-character  *)
(* strings; every other string is a TLA+ string.  A UniValue is a record   *)
(* tagged by its field t.  A C++ call that can return or throw is an       *)
(* "outcome" record: kind is "return", "rpcerr" (a thrown UniValue) or     *)
(* "stdex" (a thrown std::exception).  Timestamps (GetTimeMicros) are not  *)
(* modelled.                                                               *)
(***************************************************************************)
EXTENDS Integers, Sequences, FiniteSets, TLC

(***************************************************************************)
(* Bounds of the model.                                                    *)
(***************************************************************************)
\* Number of concurrent dispatch contexts (HTTP worker threads).
NumThreads == 2
\* Longest batch handed to JSONRPCExecBatch.
MaxBatch == 2
\* Number of registry calls whose callers are followed in SpecRegistry.
MaxCalls == 3
\* Length of the event log up to which a logged operation may start
MaxEvents == 4

Threads == 1..NumThreads

(***************************************************************************)
(* UniValue                                                                *)
(***************************************************************************)
NullUniValue == [t |-> "null"]
Num(n) == [t |-> "num", v |-> n]
Str(s) == [t |-> "str", v |-> s]
\* UniValue(UniValue::VARR) filled by push_back
Arr(s) == [t |-> "arr", v |-> s]
\* UniValue(UniValue::VOBJ) filled by pushKV: parallel keys / values vectors
Obj(ks, vs) == [t |-> "obj", k |-> ks, v |-> vs]

isNull(u) == u.t = "null"
isObject(u) == u.t = "obj"
\* UniValue::size(): number of elements of an array or object, 0 otherwise
size(u) == IF u.t \in {"arr", "obj"} THEN Len(u.v) ELSE 0
getKeys(u) == u.k
getValues(u) == u.v

\* A message built as  text + arg  (arg is the empty string when absent)
Msg(text) == [text |-> text, arg |-> <<>>]
MsgCat(text, arg) == [text |-> text, arg |-> arg]

JSONRPCError(code, message) == [t |-> "error", code |-> code, message |-> message]
JSONRPCReplyObj(result, error, id) ==
    [result |-> IF isNull(error) THEN result ELSE NullUniValue,
     error |-> error, id |-> id]

Return(v) == [kind |-> "return", val |-> v]
ThrowRPC(e) == [kind |-> "rpcerr", val |-> e]
ThrowStd(what) == [kind |-> "stdex", val |-> what]
NoOutcome == [kind |-> "none"]

(***************************************************************************)
(* transformNamedArguments                                                 *)
(***************************************************************************)
\* boost::algorithm::split(v, s, is_any_of("|")) without token compression:
\* the pieces of s between separators; an empty s yields one empty piece.
RECURSIVE SplitFrom(_, _, _)
SplitFrom(s, i, cur) ==
    IF i > Len(s) THEN <<cur>>
    ELSE IF s[i] = "|" THEN <<cur>> \o SplitFrom(s, i + 1, <<>>)
    ELSE SplitFrom(s, i + 1, Append(cur, s[i]))

split(argNamePattern) == SplitFrom(argNamePattern, 1, <<>>)

\* argsIn[keys[i]] = &values[i] for i = 0..size-1: a later duplicate key
\* overwrites an earlier one.
BuildArgsIn(keys, values) ==
    [key \in {keys[i] : i \in 1..Len(keys)} |->
        values[CHOOSE i \in 1..Len(keys) :
                  /\ keys[i] = key
                  /\ \A j \in 1..Len(keys) : keys[j] = key => j <= i]]

\* An inner loop that keeps the last alias of the group that is present
FindAlias_Last(vargNames, argsIn) ==
    IF \E i \in 1..Len(vargNames) : vargNames[i] \in DOMAIN argsIn
    THEN CHOOSE i \in 1..Len(vargNames) :
            /\ vargNames[i] \in DOMAIN argsIn
            /\ \A j \in (i + 1)..Len(vargNames) : vargNames[j] \notin DOMAIN argsIn
    ELSE 0

\* The inner loop: the first alias of the group that argsIn.find() finds;
\* 0 stands for argsIn.end().
FindAlias(vargNames, argsIn) ==
    IF \E i \in 1..Len(vargNames) : vargNames[i] \in DOMAIN argsIn
    THEN CHOOSE i \in 1..Len(vargNames) :
            /\ vargNames[i] \in DOMAIN argsIn
            /\ \A j \in 1..(i - 1) : vargNames[j] \notin DOMAIN argsIn
    ELSE 0

\* A gap left unfilled
Nulls_None(n) == <<>>

\* The hole positions pushed before a found value: hole null values
Nulls(n) == [i \in 1..n |-> NullUniValue]

\* argsIn.erase(fr)
MapErase(m, key) == [x \in DOMAIN m \ {key} |-> m[x]]

\* The loop over argNames from position p on, carrying argsIn, hole and
\* out.params; the result is the final (argsIn, out).
RECURSIVE ProcessExpected(_, _, _, _, _)
ProcessExpected(argNames, p, argsIn, hole, out) ==
    IF p > Len(argNames) THEN [argsIn |-> argsIn, out |-> out]
    ELSE LET vargNames == split(argNames[p])
             fr == FindAlias(vargNames, argsIn)
         IN IF fr # 0
            THEN ProcessExpected(argNames, p + 1,
                                 MapErase(argsIn, vargNames[fr]), 0,
                                 (out \o Nulls(hole)) \o <<argsIn[vargNames[fr]]>>)
            ELSE ProcessExpected(argNames, p + 1, argsIn, hole + 1, out)

\* argsIn.begin()->first of a std::unordered_map: the iteration order is
\* unspecified; order is the bucket order of the build, a sequence that
\* lists every key once.
UnorderedBegin(argsIn, order) ==
    order[CHOOSE i \in 1..Len(order) :
             /\ order[i] \in DOMAIN argsIn
             /\ \A j \in 1..(i - 1) : order[j] \notin DOMAIN argsIn]

\* A transformation that lets leftover keys pass
transformNamedArguments_IgnoreLeftover(params, argNames, order) ==
    Return(Arr(ProcessExpected(argNames, 1,
                               BuildArgsIn(getKeys(params), getValues(params)),
                               0, <<>>).out))

\* The outcome of transformNamedArguments(in, argNames): the positional
\* params of the returned request, or the thrown JSONRPCError.
transformNamedArguments(params, argNames, order) ==
    LET r == ProcessExpected(argNames, 1,
                             BuildArgsIn(getKeys(params), getValues(params)),
                             0, <<>>)
    IN IF DOMAIN r.argsIn # {}
       THEN ThrowRPC(JSONRPCError("RPC_INVALID_PARAMETER",
                         MsgCat("Unknown named parameter ",
                                UnorderedBegin(r.argsIn, order))))
       ELSE Return(Arr(r.out))

(***************************************************************************)
(* Command descriptors                                                     *)
(***************************************************************************)
\* ContextFreeRPCCommand {category, name, actor, argNames}: the built-in
\* table vRPCCommands.
cmdGetrpcinfo ==
    [category |-> "control", name |-> "getrpcinfo", actor |-> "getrpcinfo",
     argNames |-> <<>>]
cmdHelp ==
    [category |-> "control", name |-> "help", actor |-> "help",
     argNames |-> << <<"c", "o", "m", "m", "a", "n", "d">> >>]
cmdStop ==
    [category |-> "control", name |-> "stop", actor |-> "stop",
     argNames |-> << <<"w", "a", "i", "t">> >>]
cmdUptime ==
    [category |-> "control", name |-> "uptime", actor |-> "uptime",
     argNames |-> <<>>]
vRPCCommands == <<cmdGetrpcinfo, cmdHelp, cmdStop, cmdUptime>>

\* Commands of other subsystems, handed to appendCommand: arbitrary
\* callables.  "echo" returns the params it was called with, the other two
\* fail in the two ways a handler can fail.
cmdEcho ==
    [category |-> "util", name |-> "echo", actor |-> "echo",
     argNames |-> << <<"a">>, <<"b", "|", "c">>, <<"d">> >>]
cmdThrowRpc ==
    [category |-> "util", name |-> "echo", actor |-> "throwrpc",
     argNames |-> << <<"a">> >>]
cmdThrowStd ==
    [category |-> "hidden", name |-> "echo", actor |-> "throwstd",
     argNames |-> <<>>]
ExtraCommands == {cmdEcho, cmdThrowRpc, cmdThrowStd}
\* A command whose handler returns no value (NullUniValue)
cmdNull ==
    [category |-> "util", name |-> "fresh", actor |-> "null", argNames |-> <<>>]
\* A command two of whose declared names share the alias b
cmdPair ==
    [category |-> "util", name |-> "pair", actor |-> "echo",
     argNames |-> << <<"a", "|", "b">>, <<"b">> >>]

\* RPCCommand objects (context-bound commands) handed to RegisterCommand;
\* GetName() is the field name, Execute() behaves as the field exec says.
dynEcho == [name |-> "echo", exec |-> "echo"]
dynThrowStd == [name |-> "echo", exec |-> "throwstd"]
dynThrowRpc == [name |-> "echo", exec |-> "throwrpc"]
DynCommands == {dynEcho, dynThrowStd, dynThrowRpc}
\* std::unique_ptr<RPCCommand>() : the null command
nullptr == [name |-> "", exec |-> "nullptr"]

(***************************************************************************)
(* State                                                                   *)
(***************************************************************************)
VARIABLES
    g_rpc_running,      \* std::atomic<bool>
    fRPCInWarmup,       \* guarded by cs_rpcWarmup
    rpcWarmupStatus,    \* guarded by cs_rpcWarmup
    mapCommands,        \* CRPCTable::mapCommands: name -> ContextFreeRPCCommand
    commands,           \* RPCServer::commands: name -> RPCCommand
    commandsReaders,    \* threads holding a read view of commands
    active_commands,    \* g_rpc_server_info.active_commands: list of nodes
    hashOrder,          \* bucket order of std::unordered_map in this build
    callLog,            \* the registry calls made so far, as their callers saw them
    pc,                 \* per thread: where it is in the dispatch code
    vReq,               \* per thread: the batch being executed
    ret,                \* per thread: JSONRPCExecBatch's ret array
    jreq,               \* per thread: the JSONRPCRequest being executed
    pcmd,               \* per thread: the command resolved by the lookup
    it,                 \* per thread: RPCCommandExecution::it
    args,               \* per thread: params the handler was called with
    outcome,            \* per thread: the value or exception in flight
    raised,             \* per thread: what the handler or transform produced
    timerInterface,     \* RPCTimerInterface *timerInterface
    deadlineTimers,     \* name -> the RPCTimerBase it owns
    authCookie,         \* the authentication cookie file exists
    g_rpcSignals,       \* the slots connected to Started and to Stopped
    eventLog,           \* timers made and destroyed, slots run, errors thrown
    mainPc,             \* where the thread that calls StopRPC is in it
    runLater            \* per thread: its call of RPCRunLater in progress

svcVars == <<timerInterface, deadlineTimers, authCookie, g_rpcSignals,
             eventLog, mainPc, runLater>>
envVars == <<g_rpc_running, fRPCInWarmup, rpcWarmupStatus, mapCommands,
             commands, commandsReaders, active_commands, hashOrder, callLog,
             svcVars>>
thVars == <<pc, vReq, ret, jreq, pcmd, it, args, outcome, raised>>
vars == <<g_rpc_running, fRPCInWarmup, rpcWarmupStatus, mapCommands,
          commands, commandsReaders, active_commands, hashOrder, callLog,
          pc, vReq, ret, jreq, pcmd, it, args, outcome, raised,
          timerInterface, deadlineTimers, authCookie, g_rpcSignals,
          eventLog, mainPc, runLater>>

NoRequest == [strMethod |-> "", params |-> NullUniValue, id |-> NullUniValue,
              fHelp |-> FALSE]
NoCommand == [kind |-> "none"]
NoNode == 0

\* The keys that occur in requests of the model, and the bucket orders the
\* build may have.
KeyA == <<"a">>
KeyB == <<"b">>
KeyC == <<"c">>
KeyD == <<"d">>
KeyX == <<"x">>
HashOrders == { <<KeyA, KeyB, KeyC, KeyD, KeyX>>, <<KeyX, KeyD, KeyC, KeyB, KeyA>> }

WarmupStatuses == {"RPC server started", "Loading block index..."}

\* CRPCTable::CRPCTable(): mapCommands[pcmd->name] = pcmd for the built-ins
CRPCTable ==
    [n \in {vRPCCommands[i].name : i \in 1..Len(vRPCCommands)} |->
        vRPCCommands[CHOOSE i \in 1..Len(vRPCCommands) :
                        /\ vRPCCommands[i].name = n
                        /\ \A j \in 1..Len(vRPCCommands) :
                              vRPCCommands[j].name = n => j <= i]]

\* timerInterface == nullptr, and a thread that is not inside RPCRunLater
NoInterface == "nullptr"
NoCall == [at |-> "none"]

\* The file-scope state of timers and signals after static initialisation;
\* no cookie file has been written yet.
ServiceInit ==
    /\ timerInterface = NoInterface
    /\ deadlineTimers = [n \in {} |-> NoCall]
    /\ authCookie = FALSE
    /\ g_rpcSignals = [Started |-> <<>>, Stopped |-> <<>>]
    /\ eventLog = <<>>
    /\ mainPc = "idle"
    /\ runLater = [t \in Threads |-> NoCall]

ThreadInit ==
    /\ pc = [t \in Threads |-> "idle"]
    /\ vReq = [t \in Threads |-> <<>>]
    /\ ret = [t \in Threads |-> <<>>]
    /\ jreq = [t \in Threads |-> NoRequest]
    /\ pcmd = [t \in Threads |-> NoCommand]
    /\ it = [t \in Threads |-> NoNode]
    /\ args = [t \in Threads |-> NullUniValue]
    /\ outcome = [t \in Threads |-> NoOutcome]
    /\ raised = [t \in Threads |-> NoOutcome]

\* The state after static initialisation of the translation unit.
Init ==
    /\ g_rpc_running = FALSE
    /\ fRPCInWarmup = TRUE
    /\ rpcWarmupStatus = "RPC server started"
    /\ mapCommands = CRPCTable
    /\ commands = [n \in {} |-> nullptr]
    /\ commandsReaders = {}
    /\ active_commands = <<>>
    /\ hashOrder \in HashOrders
    /\ ServiceInit
    /\ callLog = <<>>
    /\ ThreadInit

(***************************************************************************)
(* Registries, lifecycle flag and warmup gate                              *)
(***************************************************************************)
\* bool IsRPCRunning()
IsRPCRunning == g_rpc_running

\* appendCommand without the IsRPCRunning() test
appendCommandResult_NoRunningTest(name, cmd) ==
    IF name \in DOMAIN mapCommands THEN FALSE ELSE TRUE

\* What appendCommand(name, pcmd) returns.
appendCommandResult(name, cmd) ==
    IF IsRPCRunning THEN FALSE
    ELSE IF name \in DOMAIN mapCommands THEN FALSE
    ELSE TRUE

\* mapCommands[name] = pcmd
MapAssign(m, name, cmd) ==
    [x \in DOMAIN m \cup {name} |-> IF x = name THEN cmd ELSE m[x]]

\* std::map::insert_or_assign in place of insert
MapInsert_Assign(m, name, cmd) ==
    [x \in DOMAIN m \cup {name} |-> IF x = name THEN cmd ELSE m[x]]

\* std::map::insert(make_pair(name, cmd)): keeps an existing element
MapInsert(m, name, cmd) ==
    [x \in DOMAIN m \cup {name} |-> IF x \in DOMAIN m THEN m[x] ELSE cmd]

\* bool CRPCTable::appendCommand(name, pcmd); it returns
\* appendCommandResult(name, pcmd).  The frame leaves callLog to the caller.
appendCommand(name, cmd) ==
    /\ mapCommands' = IF appendCommandResult(name, cmd)
                      THEN MapAssign(mapCommands, name, cmd)
                      ELSE mapCommands
    /\ UNCHANGED <<g_rpc_running, fRPCInWarmup, rpcWarmupStatus, commands,
                   commandsReaders, active_commands, hashOrder, svcVars>>
    /\ UNCHANGED thVars

\* void RPCServer::RegisterCommand(std::unique_ptr<RPCCommand> command).
\* getWriteView() waits until no read view is held.
RegisterCommand(command) ==
    /\ command # nullptr => commandsReaders = {}
    /\ commands' = IF command # nullptr
                   THEN MapInsert(commands, command.name, command)
                   ELSE commands
    /\ UNCHANGED <<g_rpc_running, fRPCInWarmup, rpcWarmupStatus, mapCommands,
                   commandsReaders, active_commands, hashOrder, svcVars>>
    /\ UNCHANGED thVars

\* A signal that calls the slot connected last first
SlotEvents_Reversed(sig, running, timers, cookie) ==
    [i \in 1..Len(g_rpcSignals[sig]) |->
        [ev |-> "slot", sig |-> sig,
         slot |-> g_rpcSignals[sig][Len(g_rpcSignals[sig]) + 1 - i],
         running |-> running, timers |-> timers, cookie |-> cookie]]

\* g_rpcSignals.Started() / Stopped(): boost::signals2 calls the connected
\* slots in the order of their connection; each slot of the model notes
\* what it sees when it runs.
SlotEvents(sig, running, timers, cookie) ==
    [i \in 1..Len(g_rpcSignals[sig]) |->
        [ev |-> "slot", sig |-> sig, slot |-> g_rpcSignals[sig][i],
         running |-> running, timers |-> timers, cookie |-> cookie]]

\* void StartRPC()
StartRPC ==
    /\ g_rpc_running' = TRUE
    /\ eventLog' = eventLog \o SlotEvents("Started", TRUE, DOMAIN deadlineTimers,
                                          authCookie)
    /\ UNCHANGED <<fRPCInWarmup, rpcWarmupStatus, mapCommands, commands,
                   commandsReaders, active_commands, hashOrder, callLog>>
    /\ UNCHANGED <<timerInterface, deadlineTimers, authCookie, g_rpcSignals,
                   mainPc, runLater>>
    /\ UNCHANGED thVars

\* void InterruptRPC()
InterruptRPC ==
    /\ g_rpc_running' = FALSE
    /\ UNCHANGED <<fRPCInWarmup, rpcWarmupStatus, mapCommands, commands,
                   commandsReaders, active_commands, hashOrder, callLog, svcVars>>
    /\ UNCHANGED thVars

\* void SetRPCWarmupStatus(const std::string &newStatus)
SetRPCWarmupStatus(newStatus) ==
    /\ rpcWarmupStatus' = newStatus
    /\ UNCHANGED <<g_rpc_running, fRPCInWarmup, mapCommands, commands,
                   commandsReaders, active_commands, hashOrder, callLog, svcVars>>
    /\ UNCHANGED thVars

\* A SetRPCWarmupFinished that flips the flag whatever it is
SetRPCWarmupFinished_Toggle ==
    /\ fRPCInWarmup' = ~fRPCInWarmup
    /\ UNCHANGED <<g_rpc_running, rpcWarmupStatus, mapCommands, commands,
                   commandsReaders, active_commands, hashOrder, callLog, svcVars>>
    /\ UNCHANGED thVars

\* void SetRPCWarmupFinished(): assert(fRPCInWarmup) aborts the process
\* when the flag is already false, so the call is a step only when it is set.
SetRPCWarmupFinished ==
    /\ fRPCInWarmup
    /\ fRPCInWarmup' = FALSE
    /\ UNCHANGED <<g_rpc_running, rpcWarmupStatus, mapCommands, commands,
                   commandsReaders, active_commands, hashOrder, callLog, svcVars>>
    /\ UNCHANGED thVars

(***************************************************************************)
(* Handlers                                                                *)
(***************************************************************************)
\* A snapshot that lists nothing
ActiveCommandsSnapshot_Empty == Arr(<<>>)

\* The snapshot loop of getrpcinfo: one entry per active command, in list
\* order (the duration field is not modelled).
ActiveCommandsSnapshot ==
    Arr([i \in 1..Len(active_commands) |->
            Obj(<< <<"method">> >>, <<Str(active_commands[i].method)>>)])

(***************************************************************************)
(* CRPCTable::help                                                         *)
(***************************************************************************)
\* The characters of the category and command names that help() sorts
Chars(s) ==
    CASE s = "" -> <<>>
      [] s = "control" -> <<"c", "o", "n", "t", "r", "o", "l">>
      [] s = "hidden" -> <<"h", "i", "d", "d", "e", "n">>
      [] s = "net" -> <<"n", "e", "t">>
      [] s = "network" -> <<"n", "e", "t", "w", "o", "r", "k">>
      [] s = "util" -> <<"u", "t", "i", "l">>
      [] s = "getrpcinfo" -> <<"g", "e", "t", "r", "p", "c", "i", "n", "f", "o">>
      [] s = "help" -> <<"h", "e", "l", "p">>
      [] s = "stop" -> <<"s", "t", "o", "p">>
      [] s = "uptime" -> <<"u", "p", "t", "i", "m", "e">>
      [] s = "ping" -> <<"p", "i", "n", "g">>
      [] s = "addnode" -> <<"a", "d", "d", "n", "o", "d", "e">>
      [] s = "zap" -> <<"z", "a", "p">>
      [] s = "secret" -> <<"s", "e", "c", "r", "e", "t">>
      [] s = "echo" -> <<"e", "c", "h", "o">>

Alphabet ==
    <<"a", "b", "c", "d", "e", "f", "g", "h", "i", "j", "k", "l", "m", "n", "o", "p", "q", "r", "s", "t", "u", "v", "w", "x", "y", "z">>
UpperCase ==
    <<"A", "B", "C", "D", "E", "F", "G", "H", "I", "J", "K", "L", "M", "N", "O", "P", "Q", "R", "S", "T", "U", "V", "W", "X", "Y", "Z">>
CharIndex(c) == CHOOSE i \in 1..Len(Alphabet) : Alphabet[i] = c

\* operator< of std::string: a is lexicographically less than b
StringLess(a, b) ==
    \E i \in 1..Len(b) :
        /\ \A j \in 1..(i - 1) : j <= Len(a) /\ a[j] = b[j]
        /\ \/ i > Len(a)
           \/ CharIndex(a[i]) < CharIndex(b[i])

\* entry.second->category + entry.first
SortKey(category, name) == Chars(category) \o Chars(name)

\* sort(vCommands.begin(), vCommands.end()): the registered names in the
\* order of their keys (the keys of the registries used here are distinct,
\* so the pointer that breaks a tie is never compared)
RECURSIVE SortCommands(_)
SortCommands(names) ==
    IF names = {} THEN <<>>
    ELSE LET first == CHOOSE n \in names :
                        \A o \in names \ {n} :
                            ~StringLess(SortKey(mapCommands[o].category, o),
                                     SortKey(mapCommands[n].category, n))
         IN  <<first>> \o SortCommands(names \ {first})

\* Capitalize(str): the first character in upper case
Capitalize(str) ==
    IF str = <<>> THEN <<>>
    ELSE <<UpperCase[CharIndex(str[1])]>> \o Tail(str)

\* The text of a std::runtime_error that holds a usage text of several lines
MsgLines(lines) == [text |-> lines[1], arg |-> <<>>, lines |-> lines]
\* e.what() cut at its line ends
Lines(what) == IF "lines" \in DOMAIN what THEN what.lines ELSE <<what.text>>

\* strRet is kept as the sequence of its lines; each piece the code adds
\* ends a line
TextLine(str) == [kind |-> "text", s |-> str]
HeaderLine(category) == [kind |-> "header", title |-> Capitalize(Chars(category))]
UnknownCommandLine(strCommand) == [kind |-> "unknown", command |-> strCommand]

RECURSIVE CallActor(_, _, _)

\* The loop over vCommands from position i on, carrying strRet, category
\* and setDone; the result is the final strRet, or the exception of a
\* handler that is not a std::exception and so leaves help()
RECURSIVE HelpLoop(_, _, _, _, _, _)
HelpLoop(vCommands, i, strCommand, strRet, category, setDone) ==
    IF i > Len(vCommands) THEN Return(strRet)
    ELSE LET cmd == mapCommands[vCommands[i]]
             strMethod == cmd.name
         IN  IF (strCommand # "" \/ cmd.category = "hidden") /\ strMethod # strCommand
             THEN HelpLoop(vCommands, i + 1, strCommand, strRet, category, setDone)
             ELSE IF cmd \in setDone
             THEN HelpLoop(vCommands, i + 1, strCommand, strRet, category, setDone)
             ELSE LET o == CallActor(cmd, NullUniValue, TRUE)
                  IN  CASE o.kind = "return" ->
                              HelpLoop(vCommands, i + 1, strCommand, strRet, category,
                                       setDone \cup {cmd})
                        [] o.kind = "rpcerr" -> o
                        [] o.kind = "stdex" ->
                              LET what == Lines(o.val)
                                  strHelp == IF strCommand = "" THEN <<what[1]>> ELSE what
                                  newCategory == strCommand = "" /\ category # cmd.category
                                  gap == IF newCategory /\ category # ""
                                         THEN <<TextLine("")>> ELSE <<>>
                                  header == IF newCategory
                                            THEN <<HeaderLine(cmd.category)>> ELSE <<>>
                              IN  HelpLoop(vCommands, i + 1, strCommand,
                                           ((strRet \o gap) \o header)
                                              \o [j \in 1..Len(strHelp) |-> TextLine(strHelp[j])],
                                           IF newCategory THEN cmd.category ELSE category,
                                           setDone \cup {cmd})

\* std::string CRPCTable::help(config, strCommand, helpreq): the lines of
\* the returned text
help(strCommand) ==
    LET r == HelpLoop(SortCommands(DOMAIN mapCommands), 1, strCommand, <<>>, "", {})
    IN  IF r.kind # "return" THEN r
        ELSE IF r.val = <<>> THEN Return(Str(<<UnknownCommandLine(strCommand)>>))
        ELSE Return(Str(r.val))

\* pcmd->call(config, request): the outcome of the handler body of a
\* context-free command called with params p.
CallActor(cmd, p, fHelp) ==
    CASE cmd.actor = "getrpcinfo" ->
            IF fHelp \/ size(p) > 0
            THEN ThrowStd(MsgLines(<<"getrpcinfo", "", "Returns details of the RPC server.", "">>))
            ELSE Return(Obj(<< <<"active_commands">> >>, <<ActiveCommandsSnapshot>>))
      [] cmd.actor = "uptime" ->
            IF fHelp \/ size(p) > 0
            THEN ThrowStd(MsgLines(<<"uptime", "", "Returns the total uptime of the server.", "">>))
            ELSE Return(Num(0))
      [] cmd.actor = "stop" ->
            IF fHelp \/ size(p) > 1
            THEN ThrowStd(MsgLines(<<"stop", "", "Stop Bitcoin server.">>))
            ELSE Return(Str("Bitcoin server stopping"))
      [] cmd.actor = "echo" -> Return(p)
      [] cmd.actor = "throwrpc" ->
            ThrowRPC(JSONRPCError("RPC_TYPE_ERROR", Msg("Expected type number, got string")))
      [] cmd.actor = "throwstd" -> ThrowStd(Msg("handler failed"))
      [] cmd.actor = "null" -> Return(NullUniValue)
      [] cmd.actor = "help" ->
            IF fHelp \/ size(p) > 1
            THEN ThrowStd(MsgLines(<<"help ( \"command\" )", "",
                                     "List all commands, or get help for a specified command.",
                                     "">>))
            ELSE IF size(p) > 0 /\ p.v[1].t # "str"
            THEN ThrowStd(Msg("JSON value is not a string as expected"))
            ELSE help(IF size(p) > 0 THEN p.v[1].v ELSE "")
      [] cmd.actor = "usage" ->
            IF fHelp THEN ThrowStd(MsgLines(<<cmd.name, "", "Usage.">>))
            ELSE Return(NullUniValue)

\* iter->second.get()->Execute(request): the outcome of a context-bound
\* command, which receives the request as it is.
Execute(command, request) ==
    CASE command.exec = "echo" -> Return(request.params)
      [] command.exec = "throwrpc" ->
            ThrowRPC(JSONRPCError("RPC_INVALID_ADDRESS_OR_KEY", Msg("Invalid address")))
      [] command.exec = "throwstd" -> ThrowStd(Msg("command failed"))

(***************************************************************************)
(* Request parsing and the pieces of dispatch that decide an outcome       *)
(***************************************************************************)
\* A request as it arrives in a batch: wf is false for an element that is
\* not a well-formed request object.
WireRequest(wf, method, params) ==
    [wf |-> wf, method |-> method, params |-> params, id |-> Num(1)]

\* jreq.parse(req): the parsed request, or the error thrown for a
\* malformed element.
parse(req) ==
    IF req.wf
    THEN Return([strMethod |-> req.method, params |-> req.params,
                 id |-> req.id, fHelp |-> FALSE])
    ELSE ThrowRPC(JSONRPCError("RPC_PARSE_ERROR", Msg("Parse error")))

\* ExecuteCommand without its warmup block
ExecuteCommandGate_Open == NoOutcome

\* The warmup block of RPCServer::ExecuteCommand
ExecuteCommandGate ==
    IF fRPCInWarmup
    THEN ThrowRPC(JSONRPCError("RPC_IN_WARMUP", Msg(rpcWarmupStatus)))
    ELSE NoOutcome

\* A lookup in which the dynamic registry yields to the static table when both
\* hold the name
FindCommand_StaticFirst(commandName) ==
    IF commandName \in DOMAIN commands /\ commandName \notin DOMAIN mapCommands
    THEN [kind |-> "dynamic", cmd |-> commands[commandName]]
    ELSE NoCommand

\* commandsReadView->find(commandName)
FindCommand(commandName) ==
    IF commandName \in DOMAIN commands
    THEN [kind |-> "dynamic", cmd |-> commands[commandName]]
    ELSE NoCommand

\* The warmup block of CRPCTable::execute
TableGate ==
    IF fRPCInWarmup
    THEN ThrowRPC(JSONRPCError("RPC_IN_WARMUP", Msg(rpcWarmupStatus)))
    ELSE NoOutcome

\* const ContextFreeRPCCommand *CRPCTable::operator[](name)
TableLookup(name) ==
    IF name \in DOMAIN mapCommands
    THEN [kind |-> "static", cmd |-> mapCommands[name]]
    ELSE NoCommand

\* A catch clause that wraps whatever was thrown
TableCatch_All(o) ==
    IF o.kind = "stdex" THEN ThrowRPC(JSONRPCError("RPC_MISC_ERROR", o.val))
    ELSE IF o.kind = "rpcerr"
         THEN ThrowRPC(JSONRPCError("RPC_MISC_ERROR", o.val.message))
         ELSE o

\* The catch clause of CRPCTable::execute: a std::exception leaves as
\* JSONRPCError(RPC_MISC_ERROR, e.what()), anything else passes.
TableCatch(o) ==
    IF o.kind = "stdex"
    THEN ThrowRPC(JSONRPCError("RPC_MISC_ERROR", o.val))
    ELSE o

\* A catch clause for std::exception that builds the reply without an error
ExecOneReply_NoStdError(o, id) ==
    CASE o.kind = "return" -> JSONRPCReplyObj(o.val, NullUniValue, id)
      [] o.kind = "rpcerr" -> JSONRPCReplyObj(NullUniValue, o.val, id)
      [] o.kind = "stdex" -> JSONRPCReplyObj(NullUniValue, NullUniValue, id)

\* The try/catch of JSONRPCExecOne: the reply object for an outcome.
ExecOneReply(o, id) ==
    CASE o.kind = "return" -> JSONRPCReplyObj(o.val, NullUniValue, id)
      [] o.kind = "rpcerr" -> JSONRPCReplyObj(NullUniValue, o.val, id)
      [] o.kind = "stdex" ->
            JSONRPCReplyObj(NullUniValue, JSONRPCError("RPC_PARSE_ERROR", o.val), id)

(***************************************************************************)
(* Execution tracker                                                       *)
(***************************************************************************)
\* The list node a new element gets: any address not in use (the smallest)
NewNode ==
    CHOOSE n \in 1..(Len(active_commands) + 1) :
        /\ \A i \in 1..Len(active_commands) : active_commands[i].node # n
        /\ \A m \in 1..(n - 1) :
              \E i \in 1..Len(active_commands) : active_commands[i].node = m

\* active_commands.insert(cend(), {method, GetTimeMicros()})
ListInsertEnd(list, node, method) ==
    Append(list, [node |-> node, method |-> method])

\* A destructor that unlinks the oldest node
ListErase_Head(list, node) == Tail(list)

\* A destructor that leaves the list as it is
ListErase_Keep(list, node) == list

\* active_commands.erase(it): unlink the node the iterator points to
RECURSIVE ListErase(_, _)
ListErase(list, node) ==
    IF list = <<>> THEN <<>>
    ELSE IF Head(list).node = node THEN Tail(list)
    ELSE <<Head(list)>> \o ListErase(Tail(list), node)

(***************************************************************************)
(* Dispatch: JSONRPCExecBatch -> JSONRPCExecOne -> ExecuteCommand ->        *)
(* CRPCTable::execute, one step per critical section or handler body       *)
(***************************************************************************)
\* JSONRPCExecBatch entered with the batch reqs: ret is the empty array.
JSONRPCExecBatch(t, reqs) ==
    /\ pc[t] = "idle"
    /\ vReq' = [vReq EXCEPT ![t] = reqs]
    /\ ret' = [ret EXCEPT ![t] = <<>>]
    /\ pc' = [pc EXCEPT ![t] = IF Len(reqs) = 0 THEN "batch_done" ELSE "parse"]
    /\ UNCHANGED <<jreq, pcmd, it, args, outcome, raised>>
    /\ UNCHANGED envVars

\* Every turn of the loop handing the first element to JSONRPCExecOne
BatchElement_First(reqs, reqIdx) == reqs[1]

\* vReq[reqIdx] of the loop in JSONRPCExecBatch (reqIdx counts from 0)
BatchElement(reqs, reqIdx) == reqs[reqIdx + 1]

\* JSONRPCExecOne for element ret.size() of the batch: jreq.parse(req)
JSONRPCExecOne(t) ==
    /\ pc[t] = "parse"
    /\ LET req == BatchElement(vReq[t], Len(ret[t]))
           r == parse(req)
       IN IF r.kind = "return"
          THEN /\ jreq' = [jreq EXCEPT ![t] = r.val]
               /\ outcome' = [outcome EXCEPT ![t] = NoOutcome]
               /\ pc' = [pc EXCEPT ![t] = "EC_warmup"]
          ELSE /\ jreq' = [jreq EXCEPT ![t] = [NoRequest EXCEPT !.id = req.id]]
               /\ outcome' = [outcome EXCEPT ![t] = r]
               /\ pc' = [pc EXCEPT ![t] = "reply"]
    /\ pcmd' = [pcmd EXCEPT ![t] = NoCommand]
    /\ args' = [args EXCEPT ![t] = NullUniValue]
    /\ raised' = [raised EXCEPT ![t] = NoOutcome]
    /\ UNCHANGED <<vReq, ret, it>>
    /\ UNCHANGED envVars

\* RPCServer::ExecuteCommand, the block under cs_rpcWarmup
ExecuteCommandWarmup(t) ==
    /\ pc[t] = "EC_warmup"
    /\ IF ExecuteCommandGate.kind = "none"
       THEN /\ pc' = [pc EXCEPT ![t] = "EC_find"]
            /\ UNCHANGED outcome
       ELSE /\ pc' = [pc EXCEPT ![t] = "reply"]
            /\ outcome' = [outcome EXCEPT ![t] = ExecuteCommandGate]
    /\ UNCHANGED <<vReq, ret, jreq, pcmd, it, args, raised>>
    /\ UNCHANGED envVars

\* RPCServer::ExecuteCommand, the block of the read view: on a hit the
\* command's Execute is entered with the read view still in scope.
ExecuteCommandFind(t) ==
    /\ pc[t] = "EC_find"
    /\ LET iter == FindCommand(jreq[t].strMethod)
       IN IF iter.kind = "dynamic"
          THEN /\ pcmd' = [pcmd EXCEPT ![t] = iter]
               /\ args' = [args EXCEPT ![t] = jreq[t].params]
               /\ commandsReaders' = commandsReaders \cup {t}
               /\ pc' = [pc EXCEPT ![t] = "dyn_call"]
          ELSE /\ pc' = [pc EXCEPT ![t] = "tbl_warmup"]
               /\ UNCHANGED <<pcmd, args, commandsReaders>>
    /\ UNCHANGED <<vReq, ret, jreq, it, outcome, raised>>
    /\ UNCHANGED <<g_rpc_running, fRPCInWarmup, rpcWarmupStatus, mapCommands,
                   commands, active_commands, hashOrder, callLog, svcVars>>

\* The context-bound command's Execute returns or throws; the read view
\* goes out of scope.
ExecuteReturn(t) ==
    /\ pc[t] = "dyn_call"
    /\ outcome' = [outcome EXCEPT ![t] = Execute(pcmd[t].cmd, jreq[t])]
    /\ raised' = [raised EXCEPT ![t] = Execute(pcmd[t].cmd, jreq[t])]
    /\ commandsReaders' = commandsReaders \ {t}
    /\ pc' = [pc EXCEPT ![t] = "reply"]
    /\ UNCHANGED <<vReq, ret, jreq, pcmd, it, args>>
    /\ UNCHANGED <<g_rpc_running, fRPCInWarmup, rpcWarmupStatus, mapCommands,
                   commands, active_commands, hashOrder, callLog, svcVars>>

\* CRPCTable::execute, the block under cs_rpcWarmup
TableWarmup(t) ==
    /\ pc[t] = "tbl_warmup"
    /\ IF TableGate.kind = "none"
       THEN /\ pc' = [pc EXCEPT ![t] = "tbl_find"]
            /\ UNCHANGED outcome
       ELSE /\ pc' = [pc EXCEPT ![t] = "reply"]
            /\ outcome' = [outcome EXCEPT ![t] = TableGate]
    /\ UNCHANGED <<vReq, ret, jreq, pcmd, it, args, raised>>
    /\ UNCHANGED envVars

\* CRPCTable::execute: pcmd = tableRPC[request.strMethod]
TableFind(t) ==
    /\ pc[t] = "tbl_find"
    /\ LET found == TableLookup(jreq[t].strMethod)
       IN IF found.kind = "static"
          THEN /\ pcmd' = [pcmd EXCEPT ![t] = found]
               /\ pc' = [pc EXCEPT ![t] = "tbl_begin"]
               /\ UNCHANGED outcome
          ELSE /\ outcome' = [outcome EXCEPT ![t] =
                     ThrowRPC(JSONRPCError("RPC_METHOD_NOT_FOUND", Msg("Method not found")))]
               /\ pc' = [pc EXCEPT ![t] = "reply"]
               /\ UNCHANGED pcmd
    /\ UNCHANGED <<vReq, ret, jreq, it, args, raised>>
    /\ UNCHANGED envVars

\* CRPCTable::execute, entering the try block: RPCCommandExecution's
\* constructor, then the arguments of pcmd->call.  A failing
\* transformNamedArguments leaves the block without calling the handler.
BeginExecution(t) ==
    /\ pc[t] = "tbl_begin"
    /\ it' = [it EXCEPT ![t] = NewNode]
    /\ active_commands' = ListInsertEnd(active_commands, NewNode, jreq[t].strMethod)
    /\ LET r == IF isObject(jreq[t].params)
                THEN transformNamedArguments(jreq[t].params, pcmd[t].cmd.argNames,
                                             hashOrder)
                ELSE Return(jreq[t].params)
       IN IF r.kind = "return"
          THEN /\ args' = [args EXCEPT ![t] = r.val]
               /\ pc' = [pc EXCEPT ![t] = "tbl_call"]
               /\ UNCHANGED <<outcome, raised>>
          ELSE /\ outcome' = [outcome EXCEPT ![t] = r]
               /\ raised' = [raised EXCEPT ![t] = r]
               /\ pc' = [pc EXCEPT ![t] = "tbl_end"]
               /\ UNCHANGED args
    /\ UNCHANGED <<vReq, ret, jreq, pcmd>>
    /\ UNCHANGED <<g_rpc_running, fRPCInWarmup, rpcWarmupStatus, mapCommands,
                   commands, commandsReaders, hashOrder, callLog, svcVars>>

\* The handler body of the context-free command returns or throws.
CallReturn(t) ==
    /\ pc[t] = "tbl_call"
    /\ outcome' = [outcome EXCEPT ![t] = CallActor(pcmd[t].cmd, args[t], jreq[t].fHelp)]
    /\ raised' = [raised EXCEPT ![t] = CallActor(pcmd[t].cmd, args[t], jreq[t].fHelp)]
    /\ pc' = [pc EXCEPT ![t] = "tbl_end"]
    /\ UNCHANGED <<vReq, ret, jreq, pcmd, it, args>>
    /\ UNCHANGED envVars

\* CRPCTable::execute, leaving the try block: ~RPCCommandExecution, then
\* the catch clause.
EndExecution(t) ==
    /\ pc[t] = "tbl_end"
    /\ active_commands' = ListErase(active_commands, it[t])
    /\ it' = [it EXCEPT ![t] = NoNode]
    /\ outcome' = [outcome EXCEPT ![t] = TableCatch(outcome[t])]
    /\ pc' = [pc EXCEPT ![t] = "reply"]
    /\ UNCHANGED <<vReq, ret, jreq, pcmd, args, raised>>
    /\ UNCHANGED <<g_rpc_running, fRPCInWarmup, rpcWarmupStatus, mapCommands,
                   commands, commandsReaders, hashOrder, callLog, svcVars>>

\* JSONRPCExecOne returns rpc_result and JSONRPCExecBatch pushes it on ret.
ExecOneReturn(t) ==
    /\ pc[t] = "reply"
    /\ ret' = [ret EXCEPT ![t] = Append(ret[t], ExecOneReply(outcome[t], jreq[t].id))]
    /\ outcome' = [outcome EXCEPT ![t] = NoOutcome]
    /\ pc' = [pc EXCEPT ![t] = IF Len(ret[t]) + 1 < Len(vReq[t])
                               THEN "parse" ELSE "batch_done"]
    /\ UNCHANGED <<vReq, jreq, pcmd, it, args, raised>>
    /\ UNCHANGED envVars

\* JSONRPCExecBatch returns ret.write() to its caller.
BatchReturn(t) ==
    /\ pc[t] = "batch_done"
    /\ pc' = [pc EXCEPT ![t] = "idle"]
    /\ vReq' = [vReq EXCEPT ![t] = <<>>]
    /\ ret' = [ret EXCEPT ![t] = <<>>]
    /\ jreq' = [jreq EXCEPT ![t] = NoRequest]
    /\ pcmd' = [pcmd EXCEPT ![t] = NoCommand]
    /\ args' = [args EXCEPT ![t] = NullUniValue]
    /\ raised' = [raised EXCEPT ![t] = NoOutcome]
    /\ UNCHANGED <<it, outcome>>
    /\ UNCHANGED envVars

(***************************************************************************)
(* Inputs of the specifications                                            *)
(***************************************************************************)
\* All sequences over S of length at most n
SeqUpTo(S, n) == UNION {[1..k -> S] : k \in 0..n}

Malformed == WireRequest(FALSE, "", NullUniValue)

ParamsMain ==
    { Arr(<<>>),
      Obj(<<KeyD, KeyB>>, <<Num(4), Num(2)>>),
      Obj(<<KeyX>>, <<Num(1)>>) }
MethodsMain == {"getrpcinfo", "echo", "nosuch"}
RequestsMain ==
    {WireRequest(TRUE, m, p) : m \in MethodsMain, p \in ParamsMain} \cup {Malformed}

\* Names under which other subsystems register commands: a new name and
\* the name of a built-in; SpecRegistry adds a second new name.
AppendNamesMain == {"echo", "uptime"}
AppendNames == {"echo", "uptime", "fresh"}

(***************************************************************************)
(* Specification Spec: the life of the server seen by one dispatch         *)
(* context that executes one request at a time; registrations and          *)
(* lifecycle calls interleave with its steps.                              *)
(***************************************************************************)
MainThread == 1

Next ==
    \/ \E name \in AppendNamesMain, cmd \in ExtraCommands :
          appendCommand(name, cmd) /\ UNCHANGED callLog
    \/ \E command \in DynCommands \cup {nullptr} :
          RegisterCommand(command) /\ UNCHANGED callLog
    \/ StartRPC
    \/ InterruptRPC
    \/ \E newStatus \in WarmupStatuses : SetRPCWarmupStatus(newStatus)
    \/ SetRPCWarmupFinished
    \/ \E req \in RequestsMain : JSONRPCExecBatch(MainThread, <<req>>)
    \/ JSONRPCExecOne(MainThread)
    \/ ExecuteCommandWarmup(MainThread)
    \/ ExecuteCommandFind(MainThread)
    \/ ExecuteReturn(MainThread)
    \/ TableWarmup(MainThread)
    \/ TableFind(MainThread)
    \/ BeginExecution(MainThread)
    \/ CallReturn(MainThread)
    \/ EndExecution(MainThread)
    \/ ExecOneReturn(MainThread)
    \/ BatchReturn(MainThread)

Spec == Init /\ [][Next]_vars

(***************************************************************************)
(* Specification SpecRegistry: the registration interface alone, with the  *)
(* calls and what they returned logged as the callers saw them.            *)
(***************************************************************************)
\* A caller of appendCommand that keeps the returned bool
AppendCall(name, cmd) ==
    /\ Len(callLog) < MaxCalls
    /\ appendCommand(name, cmd)
    /\ callLog' = Append(callLog, [op |-> "appendCommand", name |-> name, cmd |-> cmd,
                                   result |-> appendCommandResult(name, cmd)])

\* A caller of RegisterCommand
RegisterCall(command) ==
    /\ Len(callLog) < MaxCalls
    /\ RegisterCommand(command)
    /\ callLog' = Append(callLog, [op |-> "RegisterCommand", cmd |-> command])

NextRegistry ==
    \/ \E name \in AppendNames, cmd \in ExtraCommands : AppendCall(name, cmd)
    \/ \E command \in DynCommands \cup {nullptr} : RegisterCall(command)
    \/ StartRPC
    \/ InterruptRPC

SpecRegistry == Init /\ [][NextRegistry]_vars

(***************************************************************************)
(* Specification SpecArgs: a started server whose static table also holds  *)
(* "echo" (names a, b|c, d) and "pair" (names a|b, b); one dispatch context *)
(* sends requests with array and object params to context-free commands.   *)
(***************************************************************************)
AllKeys == {KeyA, KeyB, KeyC, KeyD, KeyX}
\* The value sent under each key
ValueOf(key) ==
    CASE key = KeyA -> Num(1) [] key = KeyB -> Num(2) [] key = KeyC -> Num(3)
      [] key = KeyD -> Num(4) [] key = KeyX -> Num(5)

\* The keys of K in the order of seq
RECURSIVE Restrict(_, _)
Restrict(seq, K) ==
    IF seq = <<>> THEN <<>>
    ELSE IF Head(seq) \in K THEN <<Head(seq)>> \o Restrict(Tail(seq), K)
    ELSE Restrict(Tail(seq), K)

ObjectOf(keys) == Obj(keys, [i \in 1..Len(keys) |-> ValueOf(keys[i])])

\* Every object over the keys, its members written in either order
ObjectsArgs ==
    { ObjectOf(Restrict(o, K)) : o \in HashOrders, K \in SUBSET AllKeys }
ArraysArgs ==
    { Arr(<<>>), Arr(<<Num(1)>>), Arr(<<Num(1), NullUniValue, Num(3)>>), NullUniValue }
RequestsArgs ==
    { WireRequest(TRUE, m, p) : m \in {"echo", "pair", "getrpcinfo"},
                                p \in ObjectsArgs \cup ArraysArgs }

InitArgs ==
    /\ g_rpc_running = TRUE
    /\ fRPCInWarmup = FALSE
    /\ rpcWarmupStatus = "RPC server started"
    /\ mapCommands = MapAssign(MapAssign(CRPCTable, "echo", cmdEcho), "pair", cmdPair)
    /\ commands = [n \in {} |-> nullptr]
    /\ commandsReaders = {}
    /\ active_commands = <<>>
    /\ hashOrder \in HashOrders
    /\ ServiceInit
    /\ callLog = <<>>
    /\ ThreadInit

NextArgs ==
    \/ \E req \in RequestsArgs : JSONRPCExecBatch(MainThread, <<req>>)
    \/ JSONRPCExecOne(MainThread)
    \/ ExecuteCommandWarmup(MainThread)
    \/ ExecuteCommandFind(MainThread)
    \/ TableWarmup(MainThread)
    \/ TableFind(MainThread)
    \/ BeginExecution(MainThread)
    \/ CallReturn(MainThread)
    \/ EndExecution(MainThread)
    \/ ExecOneReturn(MainThread)
    \/ BatchReturn(MainThread)

SpecArgs == InitArgs /\ [][NextArgs]_vars

(***************************************************************************)
(* Specification SpecBatch: the registries and the warmup flag stay as     *)
(* they are while one context executes a batch; afterwards a second        *)
(* context executes single requests on their own.                          *)
(***************************************************************************)
BatchThread == 1
SoloThread == 2

\* Request number n of a batch carries id n
WithId(req, n) == [req EXCEPT !.id = Num(n)]

RequestsBatch ==
    { WireRequest(TRUE, "getrpcinfo", Arr(<<>>)),
      WireRequest(TRUE, "echo", Obj(<<KeyD, KeyB>>, <<Num(4), Num(2)>>)),
      WireRequest(TRUE, "echo", Obj(<<KeyX>>, <<Num(5)>>)),
      WireRequest(TRUE, "nosuch", Arr(<<>>)),
      Malformed }

Batches ==
    UNION { {[i \in 1..k |-> WithId(b[i], i)] : b \in [1..k -> RequestsBatch]} :
            k \in 0..MaxBatch }

InitBatch ==
    /\ g_rpc_running = TRUE
    /\ fRPCInWarmup \in BOOLEAN
    /\ rpcWarmupStatus = "RPC server started"
    /\ mapCommands \in {MapAssign(CRPCTable, "echo", cmdEcho),
                        MapAssign(CRPCTable, "echo", cmdThrowStd)}
    /\ commands \in {[n \in {} |-> nullptr],
                     MapAssign([n \in {} |-> nullptr], "echo", dynThrowRpc)}
    /\ commandsReaders = {}
    /\ active_commands = <<>>
    /\ hashOrder \in HashOrders
    /\ ServiceInit
    /\ callLog = <<>>
    /\ ThreadInit

NextBatch ==
    \/ \E reqs \in Batches : JSONRPCExecBatch(BatchThread, reqs)
    \/ \E i \in 1..MaxBatch :
          /\ pc[BatchThread] = "batch_done"
          /\ i <= Len(vReq[BatchThread])
          /\ JSONRPCExecBatch(SoloThread, <<vReq[BatchThread][i]>>)
    \/ BatchReturn(SoloThread)
    \/ \E t \in {BatchThread, SoloThread} :
          \/ JSONRPCExecOne(t)
          \/ ExecuteCommandWarmup(t)
          \/ ExecuteCommandFind(t)
          \/ ExecuteReturn(t)
          \/ TableWarmup(t)
          \/ TableFind(t)
          \/ BeginExecution(t)
          \/ CallReturn(t)
          \/ EndExecution(t)
          \/ ExecOneReturn(t)

SpecBatch == InitBatch /\ [][NextBatch]_vars

(***************************************************************************)
(* Specification SpecConc: a started server on whose static table "echo",  *)
(* "fresh" (fails with a std::exception) and "other" (fails with an RPC    *)
(* error) are registered; every dispatch context executes requests, their  *)
(* steps interleaving.                                                     *)
(***************************************************************************)
RequestsConc ==
    { WireRequest(TRUE, "echo", Obj(<<KeyD, KeyB>>, <<Num(4), Num(2)>>)),
      WireRequest(TRUE, "echo", Obj(<<KeyX>>, <<Num(5)>>)),
      WireRequest(TRUE, "fresh", Arr(<<>>)),
      WireRequest(TRUE, "other", Arr(<<>>)) }

InitConc ==
    /\ g_rpc_running = TRUE
    /\ fRPCInWarmup = FALSE
    /\ rpcWarmupStatus = "RPC server started"
    /\ mapCommands = MapAssign(MapAssign(MapAssign(CRPCTable, "echo", cmdEcho),
                                         "fresh", cmdThrowStd),
                               "other", cmdThrowRpc)
    /\ commands = [n \in {} |-> nullptr]
    /\ commandsReaders = {}
    /\ active_commands = <<>>
    /\ hashOrder \in HashOrders
    /\ ServiceInit
    /\ callLog = <<>>
    /\ ThreadInit

NextConc ==
    \E t \in Threads :
        \/ \E req \in RequestsConc : JSONRPCExecBatch(t, <<req>>)
        \/ JSONRPCExecOne(t)
        \/ ExecuteCommandWarmup(t)
        \/ ExecuteCommandFind(t)
        \/ TableWarmup(t)
        \/ TableFind(t)
        \/ BeginExecution(t)
        \/ CallReturn(t)
        \/ EndExecution(t)
        \/ ExecOneReturn(t)
        \/ BatchReturn(t)

SpecConc == InitConc /\ [][NextConc]_vars

(***************************************************************************)
(* C1..C5 (Spec)                                                           *)
(***************************************************************************)
\* The reply of the request thread t executed last, once JSONRPCExecOne
\* has returned it.
Replied(t) == pc[t] \in {"parse", "batch_done"} /\ Len(ret[t]) >= 1
LastReply(t) == ret[t][Len(ret[t])]

\* A step in which thread t leaves the program point p
Leaves(t, p) == pc[t] = p /\ pc'[t] # p

C1_Gated ==
    fRPCInWarmup =>
        /\ active_commands = <<>>
        /\ \A t \in Threads :
              pc[t] \notin {"EC_find", "dyn_call", "tbl_warmup", "tbl_find",
                            "tbl_begin", "tbl_call", "tbl_end"}

C1_Step ==
    \A t \in Threads :
        (fRPCInWarmup /\ (Leaves(t, "EC_warmup") \/ Leaves(t, "tbl_warmup"))) =>
            /\ pc'[t] = "reply"
            /\ outcome'[t] = ThrowRPC(JSONRPCError("RPC_IN_WARMUP", Msg(rpcWarmupStatus)))
            /\ pcmd'[t] = NoCommand
            /\ raised'[t] = NoOutcome
            /\ active_commands' = active_commands

\* C1: every request dispatched while fRPCInWarmup is true ends as an
\* RPC_IN_WARMUP error carrying the status text of that moment; while the
\* flag is true no thread is at a registry lookup or in a handler and the
\* execution tracker is empty.
C1_WarmupRejectsAll == []C1_Gated /\ [][C1_Step]_vars

\* C1 witness: a request for a method registered in both registries has
\* just been rejected with the status text set during warmup.
C1_Witness ==
    /\ fRPCInWarmup
    /\ rpcWarmupStatus = "Loading block index..."
    /\ "echo" \in DOMAIN commands
    /\ "echo" \in DOMAIN mapCommands
    /\ pc[MainThread] = "reply"
    /\ jreq[MainThread].strMethod = "echo"
    /\ outcome[MainThread] =
          ThrowRPC(JSONRPCError("RPC_IN_WARMUP", Msg("Loading block index...")))

C2_Step ==
    \A t \in Threads :
        LET m == jreq[t].strMethod
        IN /\ Leaves(t, "EC_find") =>
                 IF m \in DOMAIN commands
                 THEN /\ pc'[t] = "dyn_call"
                      /\ pcmd'[t] = [kind |-> "dynamic", cmd |-> commands[m]]
                 ELSE /\ pc'[t] = "tbl_warmup"
                      /\ pcmd'[t] = NoCommand
           /\ Leaves(t, "tbl_find") =>
                 IF m \in DOMAIN mapCommands
                 THEN /\ pc'[t] = "tbl_begin"
                      /\ pcmd'[t] = [kind |-> "static", cmd |-> mapCommands[m]]
                 ELSE /\ pc'[t] = "reply"
                      /\ pcmd'[t] = NoCommand
                      /\ raised'[t] = NoOutcome
                      /\ outcome'[t].kind = "rpcerr"
                      /\ outcome'[t].val.code = "RPC_METHOD_NOT_FOUND"

C2_Invoked ==
    \A t \in Threads :
        /\ pc[t] = "dyn_call" =>
              /\ ~fRPCInWarmup
              /\ pcmd[t] = [kind |-> "dynamic", cmd |-> commands[jreq[t].strMethod]]
        /\ pc[t] \in {"tbl_begin", "tbl_call", "tbl_end"} =>
              /\ ~fRPCInWarmup
              /\ pcmd[t] = [kind |-> "static", cmd |-> mapCommands[jreq[t].strMethod]]

\* C2: once warmup is over, the lookup of method m takes the command of the
\* dynamic registry when m is registered there (and then the static table
\* is not consulted), otherwise the command of the static table, otherwise
\* the request fails with RPC_METHOD_NOT_FOUND and no handler runs; the
\* handler a thread is in is the command the registries hold under m.
C2_DynamicFirst == []C2_Invoked /\ [][C2_Step]_vars

\* C2 witness: "echo" is registered in both registries and the thread is
\* in the dynamic command's Execute.
C2_Witness ==
    /\ "echo" \in DOMAIN commands
    /\ "echo" \in DOMAIN mapCommands
    /\ pc[MainThread] = "dyn_call"
    /\ jreq[MainThread].strMethod = "echo"
    /\ pcmd[MainThread] = [kind |-> "dynamic", cmd |-> commands["echo"]]

\* C4 (as stated): whenever the body of a resolved command, static or
\* dynamic, raised a std::exception with message s, the reply of that
\* request is the error RPC_MISC_ERROR with message s.
C4_HandlerFailureIsMiscError ==
    \A t \in Threads :
        (Replied(t) /\ raised[t].kind = "stdex") =>
            /\ LastReply(t).error.t = "error"
            /\ LastReply(t).error.code = "RPC_MISC_ERROR"
            /\ LastReply(t).error.message = raised[t].val

\* What the code does for C4: the normalisation holds for the commands of
\* the static table only.
C4_StaticFailureIsMiscError ==
    \A t \in Threads :
        (Replied(t) /\ raised[t].kind = "stdex" /\ pcmd[t].kind = "static") =>
            /\ LastReply(t).error.t = "error"
            /\ LastReply(t).error.code = "RPC_MISC_ERROR"
            /\ LastReply(t).error.message = raised[t].val

\* C5: whenever a handler or the argument transformation raised an RPC
\* error (code c, message s), the reply of that request carries exactly
\* that error object and a null result.
C5_RpcErrorPassesThrough ==
    \A t \in Threads :
        (Replied(t) /\ raised[t].kind = "rpcerr") =>
            /\ LastReply(t).error = raised[t].val
            /\ LastReply(t).error.code = raised[t].val.code
            /\ LastReply(t).error.message = raised[t].val.message
            /\ isNull(LastReply(t).result)

\* C5 witness: the handler of a static command raised RPC_TYPE_ERROR and
\* the reply has been built.
C5_Witness ==
    /\ Replied(MainThread)
    /\ pcmd[MainThread] = [kind |-> "static", cmd |-> cmdThrowRpc]
    /\ raised[MainThread].kind = "rpcerr"
    /\ raised[MainThread].val.code = "RPC_TYPE_ERROR"
    /\ LastReply(MainThread).error.code = "RPC_TYPE_ERROR"

(***************************************************************************)
(* C8, C9 (SpecRegistry)                                                   *)
(***************************************************************************)
LastCall == callLog'[Len(callLog')]

C8_Step ==
    (Len(callLog') = Len(callLog) + 1 /\ LastCall.op = "appendCommand") =>
        LET name == LastCall.name
            cmd == LastCall.cmd
        IN IF g_rpc_running \/ name \in DOMAIN mapCommands
           THEN /\ LastCall.result = FALSE
                /\ mapCommands' = mapCommands
           ELSE /\ LastCall.result = TRUE
                /\ DOMAIN mapCommands' = DOMAIN mapCommands \cup {name}
                /\ mapCommands'[name] = cmd
                /\ \A x \in DOMAIN mapCommands : mapCommands'[x] = mapCommands[x]

\* C8: appendCommand(name, pcmd) returns false and leaves mapCommands as it
\* is when the server is running or name is already in the table;
\* otherwise it returns true and the table afterwards maps name to pcmd and
\* every other name as before.
C8_AppendCommand == [][C8_Step]_vars

\* C8 witness: one accepted registration, then a refused duplicate that
\* did not replace it, then a registration refused because the server runs.
C8_Witness ==
    /\ Len(callLog) = 3
    /\ callLog[1] = [op |-> "appendCommand", name |-> "echo", cmd |-> cmdEcho,
                     result |-> TRUE]
    /\ callLog[2] = [op |-> "appendCommand", name |-> "echo", cmd |-> cmdThrowStd,
                     result |-> FALSE]
    /\ callLog[3].op = "appendCommand"
    /\ callLog[3].name = "fresh"
    /\ callLog[3].result = FALSE
    /\ g_rpc_running
    /\ mapCommands["echo"] = cmdEcho
    /\ "fresh" \notin DOMAIN mapCommands

\* The non-null commands registered so far under name n, in call order
RegisteredUnder(n) ==
    SelectSeq(callLog, LAMBDA c : c.op = "RegisterCommand" /\ c.cmd # nullptr
                                    /\ c.cmd.name = n)

C9_Step ==
    (Len(callLog') = Len(callLog) + 1 /\ LastCall.op = "RegisterCommand") =>
        LET command == LastCall.cmd
        IN IF command = nullptr \/ command.name \in DOMAIN commands
           THEN commands' = commands
           ELSE /\ DOMAIN commands' = DOMAIN commands \cup {command.name}
                /\ commands'[command.name] = command
                /\ \A x \in DOMAIN commands : commands'[x] = commands[x]

C9_FirstResolves ==
    \A n \in {"echo", "getrpcinfo", ""} :
        IF RegisteredUnder(n) = <<>>
        THEN /\ n \notin DOMAIN commands
             /\ FindCommand(n) = NoCommand
        ELSE /\ commands[n] = RegisteredUnder(n)[1].cmd
             /\ FindCommand(n) = [kind |-> "dynamic", cmd |-> RegisteredUnder(n)[1].cmd]

\* C9: RegisterCommand under a name the dynamic registry already holds, or
\* of a null command, leaves the registry as it is; after any sequence of
\* registrations the command the lookup of ExecuteCommand finds under a
\* name is the first one registered under it.
C9_FirstRegistrationWins == []C9_FirstResolves /\ [][C9_Step]_vars

\* C9 witness: two commands registered under "echo" and a null command;
\* the registry holds the first.
C9_Witness ==
    /\ Len(callLog) = 3
    /\ callLog[1] = [op |-> "RegisterCommand", cmd |-> dynThrowStd]
    /\ callLog[2] = [op |-> "RegisterCommand", cmd |-> dynEcho]
    /\ callLog[3] = [op |-> "RegisterCommand", cmd |-> nullptr]
    /\ commands["echo"] = dynThrowStd
    /\ DOMAIN commands = {"echo"}

(***************************************************************************)
(* C6, C7 (SpecArgs)                                                       *)
(***************************************************************************)
\* The aliases of declared name number p, and the keys of an object
AliasesOf(argNames, p) == {split(argNames[p])[i] : i \in 1..Len(split(argNames[p]))}
KeysOf(params) == {getKeys(params)[i] : i \in 1..Len(getKeys(params))}
ValueUnder(params, key) ==
    getValues(params)[CHOOSE i \in 1..Len(getKeys(params)) : getKeys(params)[i] = key]

\* Key matches some declared name / no declared name
MatchesSome(argNames, key) == \E p \in 1..Len(argNames) : key \in AliasesOf(argNames, p)

\* Every key is an alias of exactly one declared name, and no declared
\* name has two of its aliases among the keys.
EachKeyItsOwnName(argNames, params) ==
    /\ \A key \in KeysOf(params) :
          Cardinality({p \in 1..Len(argNames) : key \in AliasesOf(argNames, p)}) = 1
    /\ \A p \in 1..Len(argNames) :
          Cardinality(AliasesOf(argNames, p) \cap KeysOf(params)) <= 1

PositionMatched(argNames, params, p) == AliasesOf(argNames, p) \cap KeysOf(params) # {}
LastMatched(argNames, params) ==
    IF \E p \in 1..Len(argNames) : PositionMatched(argNames, params, p)
    THEN CHOOSE p \in 1..Len(argNames) :
            /\ PositionMatched(argNames, params, p)
            /\ \A q \in (p + 1)..Len(argNames) : ~PositionMatched(argNames, params, q)
    ELSE 0

\* The positional sequence C6 describes
Positional(argNames, params) ==
    [p \in 1..LastMatched(argNames, params) |->
        IF PositionMatched(argNames, params, p)
        THEN ValueUnder(params,
                 CHOOSE key \in AliasesOf(argNames, p) \cap KeysOf(params) : TRUE)
        ELSE NullUniValue]

CalledWith(t, positional) ==
    /\ pc'[t] = "tbl_call"
    /\ args'[t] = Arr(positional)
    /\ raised'[t] = NoOutcome

\* C6 (as stated): whenever all keys of object params match some declared
\* name, the handler is called with the positional sequence.
C6_OrigStep ==
    \A t \in Threads :
        (Leaves(t, "tbl_begin") /\ isObject(jreq[t].params)
           /\ \A key \in KeysOf(jreq[t].params) :
                 MatchesSome(pcmd[t].cmd.argNames, key)) =>
            /\ pc'[t] = "tbl_call"
            /\ args'[t].t = "arr"
            /\ raised'[t] = NoOutcome

C6_Step ==
    \A t \in Threads :
        Leaves(t, "tbl_begin") =>
            LET P == pcmd[t].cmd.argNames
                O == jreq[t].params
            IN /\ (isObject(O) /\ EachKeyItsOwnName(P, O)) =>
                     CalledWith(t, Positional(P, O))
               /\ (isObject(O) /\ P = cmdEcho.argNames
                     /\ O = Obj(<<KeyD, KeyB>>, <<Num(4), Num(2)>>)) =>
                     CalledWith(t, <<NullUniValue, Num(2), Num(4)>>)
               /\ ~isObject(O) =>
                     /\ pc'[t] = "tbl_call"
                     /\ args'[t] = O
                     /\ raised'[t] = NoOutcome

UnmatchedKeys(argNames, params) ==
    {key \in KeysOf(params) : ~MatchesSome(argNames, key)}

\* Keys that are an alias of a declared name of which an alias listed
\* earlier is a key as well
SurplusAliases(argNames, params) ==
    {key \in KeysOf(params) :
        \E p \in 1..Len(argNames) :
            \E i, j \in 1..Len(split(argNames[p])) :
                /\ i < j
                /\ split(argNames[p])[j] = key
                /\ split(argNames[p])[i] \in KeysOf(params)
                /\ split(argNames[p])[i] # key}

FailsNaming(t, keys) ==
    /\ pc'[t] = "tbl_end"
    /\ args'[t] = args[t]
    /\ outcome'[t].kind = "rpcerr"
    /\ outcome'[t].val.code = "RPC_INVALID_PARAMETER"
    /\ outcome'[t].val.message.text = "Unknown named parameter "
    /\ outcome'[t].val.message.arg \in keys

\* C7 (as stated): the error names a key that matches no alias.
C7_OrigStep ==
    \A t \in Threads :
        (Leaves(t, "tbl_begin") /\ isObject(jreq[t].params)
           /\ UnmatchedKeys(pcmd[t].cmd.argNames, jreq[t].params) # {}) =>
            FailsNaming(t, UnmatchedKeys(pcmd[t].cmd.argNames, jreq[t].params))

C7_NamesAnUnmatchedKey == [][C7_OrigStep]_vars

C7_Step ==
    \A t \in Threads :
        (Leaves(t, "tbl_begin") /\ isObject(jreq[t].params)
           /\ UnmatchedKeys(pcmd[t].cmd.argNames, jreq[t].params) # {}) =>
            FailsNaming(t, UnmatchedKeys(pcmd[t].cmd.argNames, jreq[t].params)
                           \cup SurplusAliases(pcmd[t].cmd.argNames, jreq[t].params))

C7_NoHandlerAfterFailure ==
    \A t \in Threads :
        (Replied(t) /\ pcmd[t].kind = "static" /\ isObject(jreq[t].params)
           /\ UnmatchedKeys(pcmd[t].cmd.argNames, jreq[t].params) # {}) =>
            /\ args[t] = NullUniValue
            /\ raised[t].kind = "rpcerr"
            /\ LastReply(t).error = raised[t].val
            /\ LastReply(t).error.code = "RPC_INVALID_PARAMETER"

\* C7 (amended): for a static command and object params with at least one
\* key that matches no alias of any declared name, the dispatch fails with
\* RPC_INVALID_PARAMETER "Unknown named parameter <key>", the handler is
\* not called, and <key> is one of the keys the walk left over: a key that
\* matches no alias, or a further alias of a name already matched through
\* an alias listed before it.
C7_UnknownNamedParameter == []C7_NoHandlerAfterFailure /\ [][C7_Step]_vars

\* C7 witness: {x:5} was sent to "echo"; the reply names x and the handler
\* was never entered.
C7_Witness ==
    /\ Replied(MainThread)
    /\ pcmd[MainThread].cmd = cmdEcho
    /\ jreq[MainThread].params = Obj(<<KeyX>>, <<Num(5)>>)
    /\ args[MainThread] = NullUniValue
    /\ LastReply(MainThread).error =
          JSONRPCError("RPC_INVALID_PARAMETER", MsgCat("Unknown named parameter ", KeyX))

(***************************************************************************)
(* C3 (SpecBatch)                                                          *)
(***************************************************************************)
\* C3: a finished batch holds one reply per request, reply i answering
\* request i (it carries the id of request i), and reply i is the reply
\* the same request gets when it is executed alone - also when an earlier
\* or later request of the batch failed.
C3_BatchIsolation ==
    pc[BatchThread] = "batch_done" =>
        /\ Len(ret[BatchThread]) = Len(vReq[BatchThread])
        /\ \A i \in 1..Len(vReq[BatchThread]) :
              /\ ret[BatchThread][i].id = vReq[BatchThread][i].id
              /\ (pc[SoloThread] = "batch_done"
                    /\ vReq[SoloThread] = <<vReq[BatchThread][i]>>) =>
                    ret[SoloThread] = <<ret[BatchThread][i]>>

\* C3 witness: a batch of two different requests is finished, the first
\* reply an error and the second a result, and the second request has
\* been executed alone.
C3_Witness ==
    /\ pc[BatchThread] = "batch_done"
    /\ Len(vReq[BatchThread]) = 2
    /\ ~isNull(ret[BatchThread][1].error)
    /\ isNull(ret[BatchThread][2].error)
    /\ ~isNull(ret[BatchThread][2].result)
    /\ pc[SoloThread] = "batch_done"
    /\ vReq[SoloThread] = <<vReq[BatchThread][2]>>
    /\ ret[SoloThread] = <<ret[BatchThread][2]>>

(***************************************************************************)
(* C10 (SpecConc)                                                          *)
(***************************************************************************)
\* The dispatch of t is between the construction and the destruction of
\* its RPCCommandExecution
Tracked(t) == pc[t] \in {"tbl_call", "tbl_end"}
TrackerNodes == {active_commands[i].node : i \in 1..Len(active_commands)}

\* C10: the tracker holds exactly the entries of the dispatches that are
\* inside the tracked region; a dispatch that has left it - with a result,
\* with a handler failure or with a parameter transformation failure - has
\* no entry, and with no dispatch in flight the tracker is empty.
C10_TrackerCleanup ==
    /\ TrackerNodes = {it[t] : t \in {u \in Threads : Tracked(u)}}
    /\ Len(active_commands) = Cardinality({t \in Threads : Tracked(t)})
    /\ \A t \in Threads : ~Tracked(t) => it[t] = NoNode
    /\ (\A t \in Threads : pc[t] \in {"idle", "batch_done"}) => active_commands = <<>>

\* C10 witness: one dispatch has ended in a parameter transformation
\* failure, another in a handler failure, none is in flight and the
\* tracker is empty.
C10_Witness ==
    /\ \A t \in Threads : pc[t] \in {"idle", "batch_done"}
    /\ \E t, u \in Threads :
          /\ pc[t] = "batch_done"
          /\ raised[t].kind = "rpcerr"
          /\ isObject(jreq[t].params)
          /\ pcmd[t].cmd = cmdEcho
          /\ pc[u] = "batch_done"
          /\ raised[u].kind = "stdex"
    /\ active_commands = <<>>

(***************************************************************************)
(* Specification SpecInfo: a started server with the static command        *)
(* "fresh" and the context-bound command "echo"; one dispatch context      *)
(* sends getrpcinfo requests while the others are inside, or outside, the  *)
(* bodies of those two commands.                                           *)
(***************************************************************************)
InfoRequest == WireRequest(TRUE, "getrpcinfo", Arr(<<>>))
RequestsBlocked ==
    { WireRequest(TRUE, "fresh", Arr(<<>>)),
      WireRequest(TRUE, "echo", Arr(<<>>)) }

InitInfo ==
    /\ g_rpc_running = TRUE
    /\ fRPCInWarmup = FALSE
    /\ rpcWarmupStatus = "RPC server started"
    /\ mapCommands = MapAssign(CRPCTable, "fresh", cmdEcho)
    /\ commands = MapInsert([n \in {} |-> nullptr], "echo", dynEcho)
    /\ commandsReaders = {}
    /\ active_commands = <<>>
    /\ hashOrder \in HashOrders
    /\ ServiceInit
    /\ callLog = <<>>
    /\ ThreadInit

NextInfo ==
    \/ JSONRPCExecBatch(MainThread, <<InfoRequest>>)
    \/ \E t \in Threads \ {MainThread}, req \in RequestsBlocked :
          JSONRPCExecBatch(t, <<req>>)
    \/ \E t \in Threads :
          \/ JSONRPCExecOne(t)
          \/ ExecuteCommandWarmup(t)
          \/ ExecuteCommandFind(t)
          \/ ExecuteReturn(t)
          \/ TableWarmup(t)
          \/ TableFind(t)
          \/ BeginExecution(t)
          \/ CallReturn(t)
          \/ EndExecution(t)
          \/ ExecOneReturn(t)
          \/ BatchReturn(t)

SpecInfo == InitInfo /\ [][NextInfo]_vars

(***************************************************************************)
(* C11 (SpecInfo)                                                          *)
(***************************************************************************)
\* The other dispatches: inside the body of a static command, inside the
\* body of a context-bound command, or not in flight at all
InStaticBody(t) == pc[t] = "tbl_call"
InDynamicBody(t) == pc[t] = "dyn_call"
NotInFlight(t) == pc[t] \in {"idle", "batch_done"}

\* Thread g runs the body of getrpcinfo in this step while every other
\* dispatch is blocked in a body or not in flight
InfoBodyRuns(g) ==
    /\ Leaves(g, "tbl_call")
    /\ pcmd[g].cmd = cmdGetrpcinfo
    /\ \A t \in Threads \ {g} : InStaticBody(t) \/ InDynamicBody(t) \/ NotInFlight(t)

\* The number of entries of the snapshot the body returned
SnapshotSize(o) == Len(getValues(o.val)[1].v)

\* C11 (as stated): with N other dispatches blocked inside their handlers,
\* the snapshot a dispatched getrpcinfo returns has exactly N entries (0
\* when none is blocked).
C11_OrigStep ==
    \A g \in Threads :
        InfoBodyRuns(g) =>
            /\ raised'[g].kind = "return"
            /\ SnapshotSize(raised'[g]) =
                  Cardinality({t \in Threads \ {g} : InStaticBody(t) \/ InDynamicBody(t)})

C11_SnapshotCountsBlocked == [][C11_OrigStep]_vars

C11_Step ==
    \A g \in Threads :
        InfoBodyRuns(g) =>
            /\ raised'[g].kind = "return"
            /\ SnapshotSize(raised'[g]) =
                  Cardinality({t \in Threads \ {g} : InStaticBody(t)}) + 1
            /\ \E i \in 1..SnapshotSize(raised'[g]) :
                  getValues(raised'[g].val)[1].v[i] =
                      Obj(<< <<"method">> >>, <<Str("getrpcinfo")>>)

\* C11 (amended): with N other dispatches blocked inside the bodies of
\* static commands, and any number inside context-bound commands, the
\* snapshot a dispatched getrpcinfo returns has exactly N + 1 entries, one
\* of them its own; with none blocked it has that 1 entry.
C11_SnapshotCountsItself == [][C11_Step]_vars

\* C11 witness: getrpcinfo has returned a snapshot of two entries while
\* another dispatch is inside the body of the static command.
C11_Witness ==
    /\ pc[MainThread] = "tbl_end"
    /\ pcmd[MainThread].cmd = cmdGetrpcinfo
    /\ raised[MainThread].kind = "return"
    /\ SnapshotSize(raised[MainThread]) = 2
    /\ \E t \in Threads \ {MainThread} : InStaticBody(t) /\ jreq[t].strMethod = "fresh"

(***************************************************************************)
(* C12 (Spec)                                                              *)
(***************************************************************************)
\* The dispatch of t is inside a handler body: pcmd->call of a static
\* command or Execute of a context-bound command
InHandlerBody(t) == pc[t] \in {"tbl_call", "dyn_call"}

\* C12 (as stated): while a handler body runs, static or dynamic, its
\* dispatch holds no read view of the dynamic registry (cs_rpcWarmup and
\* the tracker mutex are taken and released within single steps), so a
\* RegisterCommand of a non-null command can take its write view.
C12_NoLockInHandlerBody ==
    \A t \in Threads :
        InHandlerBody(t) =>
            /\ t \notin commandsReaders
            /\ commandsReaders = {}

\* What the code does for C12: the body of a static command runs with no
\* read view held by its dispatch.
C12_NoLockInStaticBody ==
    \A t \in Threads : pc[t] = "tbl_call" => t \notin commandsReaders

(***************************************************************************)
(* Specification SpecReply: the registries and the warmup flag stay as     *)
(* they are; one dispatch context executes requests whose handlers return  *)
(* a value, return no value, or fail in either way.                        *)
(***************************************************************************)
RequestsReply ==
    { WireRequest(TRUE, "getrpcinfo", Arr(<<>>)),
      WireRequest(TRUE, "getrpcinfo", Arr(<<Num(1)>>)),
      WireRequest(TRUE, "echo", Obj(<<KeyD, KeyB>>, <<Num(4), Num(2)>>)),
      WireRequest(TRUE, "echo", Obj(<<KeyX>>, <<Num(5)>>)),
      WireRequest(TRUE, "fresh", Arr(<<>>)),
      WireRequest(TRUE, "other", Arr(<<>>)),
      WireRequest(TRUE, "nosuch", Arr(<<>>)),
      Malformed }

InitReply ==
    /\ g_rpc_running = TRUE
    /\ fRPCInWarmup \in BOOLEAN
    /\ rpcWarmupStatus = "RPC server started"
    /\ mapCommands = MapAssign(MapAssign(MapAssign(CRPCTable, "echo", cmdEcho),
                                         "fresh", cmdNull),
                               "other", cmdThrowRpc)
    /\ commands \in {[n \in {} |-> nullptr],
                     MapInsert([n \in {} |-> nullptr], "echo", dynThrowStd)}
    /\ commandsReaders = {}
    /\ active_commands = <<>>
    /\ hashOrder \in HashOrders
    /\ ServiceInit
    /\ callLog = <<>>
    /\ ThreadInit

NextReply ==
    \/ \E req \in RequestsReply : JSONRPCExecBatch(MainThread, <<req>>)
    \/ JSONRPCExecOne(MainThread)
    \/ ExecuteCommandWarmup(MainThread)
    \/ ExecuteCommandFind(MainThread)
    \/ ExecuteReturn(MainThread)
    \/ TableWarmup(MainThread)
    \/ TableFind(MainThread)
    \/ BeginExecution(MainThread)
    \/ CallReturn(MainThread)
    \/ EndExecution(MainThread)
    \/ ExecOneReturn(MainThread)
    \/ BatchReturn(MainThread)

SpecReply == InitReply /\ [][NextReply]_vars

(***************************************************************************)
(* C13 (SpecReply)                                                         *)
(***************************************************************************)
\* C13 (as stated): every reply has exactly one of result and error
\* non-null.
C13_ExactlyOneOfResultAndError ==
    \A t \in Threads :
        Replied(t) => (isNull(LastReply(t).result) # isNull(LastReply(t).error))

\* C13 (amended): every reply has at most one of result and error
\* non-null; the reply of a request whose handler returned a value has a
\* null error and that value as result - null when the handler returned
\* null - and the reply of every other request has a non-null error and
\* a null result.
C13_AtMostOneOfResultAndError ==
    \A t \in Threads :
        Replied(t) =>
            /\ isNull(LastReply(t).result) \/ isNull(LastReply(t).error)
            /\ raised[t].kind = "return" =>
                  /\ isNull(LastReply(t).error)
                  /\ LastReply(t).result = raised[t].val
            /\ raised[t].kind # "return" =>
                  /\ ~isNull(LastReply(t).error)
                  /\ isNull(LastReply(t).result)

\* C13 witness: the handler of "fresh" returned null and the reply has a
\* null result and a null error.
C13_Witness ==
    /\ Replied(MainThread)
    /\ pcmd[MainThread].kind = "static"
    /\ pcmd[MainThread].cmd = cmdNull
    /\ raised[MainThread] = Return(NullUniValue)
    /\ isNull(LastReply(MainThread).result)
    /\ isNull(LastReply(MainThread).error)

(***************************************************************************)
(* Specification SpecWarmup: the warmup interface from process start, with *)
(* one dispatch context; what RPCIsInWarmup returned and a failed          *)
(* assertion are logged.                                                   *)
(***************************************************************************)
\* SetRPCWarmupFinished called with the flag already false:
\* assert(fRPCInWarmup) fails and the process is aborted.
SetRPCWarmupFinishedAbort ==
    /\ ~fRPCInWarmup
    /\ callLog' = Append(callLog, [op |-> "abort"])
    /\ UNCHANGED <<g_rpc_running, fRPCInWarmup, rpcWarmupStatus, mapCommands,
                   commands, commandsReaders, active_commands, hashOrder, svcVars>>
    /\ UNCHANGED thVars

\* bool RPCIsInWarmup(std::string *outStatus): wantStatus tells whether
\* outStatus is non-null.
RPCIsInWarmup(wantStatus) ==
    /\ Len(callLog) < MaxCalls
    /\ callLog' = Append(callLog,
                         [op |-> "RPCIsInWarmup", result |-> fRPCInWarmup,
                          outStatus |-> IF wantStatus THEN rpcWarmupStatus ELSE ""])
    /\ UNCHANGED <<g_rpc_running, fRPCInWarmup, rpcWarmupStatus, mapCommands,
                   commands, commandsReaders, active_commands, hashOrder, svcVars>>
    /\ UNCHANGED thVars

\* The process has been aborted
Aborted == callLog # <<>> /\ callLog[Len(callLog)].op = "abort"

RequestsWarmup ==
    { WireRequest(TRUE, "getrpcinfo", Arr(<<>>)),
      WireRequest(TRUE, "nosuch", Arr(<<>>)) }

NextWarmup ==
    \/ ~Aborted /\ \E newStatus \in WarmupStatuses : SetRPCWarmupStatus(newStatus)
    \/ ~Aborted /\ SetRPCWarmupFinished
    \/ ~Aborted /\ SetRPCWarmupFinishedAbort
    \/ ~Aborted /\ \E wantStatus \in BOOLEAN : RPCIsInWarmup(wantStatus)
    \/ ~Aborted /\ \E req \in RequestsWarmup : JSONRPCExecBatch(MainThread, <<req>>)
    \/ ~Aborted /\ JSONRPCExecOne(MainThread)
    \/ ~Aborted /\ ExecuteCommandWarmup(MainThread)
    \/ ~Aborted /\ ExecuteCommandFind(MainThread)
    \/ ~Aborted /\ TableWarmup(MainThread)
    \/ ~Aborted /\ TableFind(MainThread)
    \/ ~Aborted /\ BeginExecution(MainThread)
    \/ ~Aborted /\ CallReturn(MainThread)
    \/ ~Aborted /\ EndExecution(MainThread)
    \/ ~Aborted /\ ExecOneReturn(MainThread)
    \/ ~Aborted /\ BatchReturn(MainThread)

SpecWarmup == Init /\ [][NextWarmup]_vars

(***************************************************************************)
(* C14 (SpecWarmup)                                                        *)
(***************************************************************************)
C14_Step ==
    /\ fRPCInWarmup' => fRPCInWarmup
    /\ (fRPCInWarmup' # fRPCInWarmup) =>
          UNCHANGED <<rpcWarmupStatus, callLog, thVars>>
    /\ (rpcWarmupStatus' # rpcWarmupStatus) =>
          UNCHANGED <<g_rpc_running, fRPCInWarmup, mapCommands, commands,
                      commandsReaders, active_commands, hashOrder, callLog, thVars, svcVars>>
    /\ (callLog' # callLog) =>
          /\ UNCHANGED <<fRPCInWarmup, rpcWarmupStatus>>
          /\ callLog'[Len(callLog')].op = "RPCIsInWarmup" =>
                callLog'[Len(callLog')].result = fRPCInWarmup
          /\ callLog'[Len(callLog')].op = "abort" => ~fRPCInWarmup
    /\ (\E t \in Threads : pc'[t] # pc[t]) => UNCHANGED <<fRPCInWarmup, rpcWarmupStatus>>

\* SetRPCWarmupFinished with the flag false is no step of the running
\* process: it can only abort it.
C14_FinishOnlyOnce ==
    /\ ~fRPCInWarmup => ~ENABLED SetRPCWarmupFinished
    /\ Aborted => ~fRPCInWarmup

\* C14: the flag starts true; a step changes it only from true to false,
\* and that step changes nothing else; a SetRPCWarmupFinished with the flag
\* false aborts the process and changes no state; SetRPCWarmupStatus
\* changes only the status text; RPCIsInWarmup and dispatch steps change
\* neither flag nor text.
C14_WarmupFlagMonotone ==
    /\ fRPCInWarmup = TRUE
    /\ []C14_FinishOnlyOnce
    /\ [][C14_Step]_vars

\* C14 witness: the flag is false, the status text was changed, a request
\* has been executed and a second SetRPCWarmupFinished aborted the process.
C14_Witness ==
    /\ Aborted
    /\ ~fRPCInWarmup
    /\ rpcWarmupStatus = "Loading block index..."
    /\ Replied(MainThread)
    /\ \E i \in 1..Len(callLog) :
          callLog[i].op = "RPCIsInWarmup" /\ callLog[i].result = TRUE

(***************************************************************************)
(* Deferred timers: timerInterface, deadlineTimers, RPCRunLater            *)
(***************************************************************************)
\* The events of one kind logged so far
CountEvents(kind) == Cardinality({i \in 1..Len(eventLog) : eventLog[i].ev = kind})

\* void RPCSetTimerInterfaceIfUnset(RPCTimerInterface *iface)
RPCSetTimerInterfaceIfUnset(iface) ==
    /\ timerInterface' = IF timerInterface = NoInterface THEN iface ELSE timerInterface
    /\ UNCHANGED <<g_rpc_running, fRPCInWarmup, rpcWarmupStatus, mapCommands,
                   commands, commandsReaders, active_commands, hashOrder, callLog>>
    /\ UNCHANGED <<deadlineTimers, authCookie, g_rpcSignals, eventLog, mainPc, runLater>>
    /\ UNCHANGED thVars

\* void RPCSetTimerInterface(RPCTimerInterface *iface)
RPCSetTimerInterface(iface) ==
    /\ timerInterface' = iface
    /\ UNCHANGED <<g_rpc_running, fRPCInWarmup, rpcWarmupStatus, mapCommands,
                   commands, commandsReaders, active_commands, hashOrder, callLog>>
    /\ UNCHANGED <<deadlineTimers, authCookie, g_rpcSignals, eventLog, mainPc, runLater>>
    /\ UNCHANGED thVars

\* void RPCUnsetTimerInterface(RPCTimerInterface *iface)
RPCUnsetTimerInterface(iface) ==
    /\ timerInterface' = IF timerInterface = iface THEN NoInterface ELSE timerInterface
    /\ UNCHANGED <<g_rpc_running, fRPCInWarmup, rpcWarmupStatus, mapCommands,
                   commands, commandsReaders, active_commands, hashOrder, callLog>>
    /\ UNCHANGED <<deadlineTimers, authCookie, g_rpcSignals, eventLog, mainPc, runLater>>
    /\ UNCHANGED thVars

\* An erase that leaves the stored timer in the map
EraseTimer_Keep(timers, name) == timers

\* deadlineTimers.erase(name)
EraseTimer(timers, name) == [n \in DOMAIN timers \ {name} |-> timers[n]]

\* An RPCRunLater that does not test timerInterface
RunLaterGate_Open == NoOutcome

\* The test at the head of RPCRunLater
RunLaterGate ==
    IF timerInterface = NoInterface
    THEN ThrowRPC(JSONRPCError("RPC_INTERNAL_ERROR",
                               Msg("No timer handler registered for RPC")))
    ELSE NoOutcome

\* RPCRunLater(name, func, nSeconds) entered by thread t: it throws, or
\* goes on to deadlineTimers.erase(name).  The call and what it threw are
\* logged.
RPCRunLater(t, name, func) ==
    /\ runLater[t] = NoCall
    /\ CountEvents("RPCRunLater") < MaxCalls
    /\ eventLog' = Append(eventLog, [ev |-> "RPCRunLater", thread |-> t, name |-> name,
                                     func |-> func, result |-> RunLaterGate])
    /\ runLater' = IF RunLaterGate.kind = "none"
                   THEN [runLater EXCEPT ![t] = [at |-> "erase", name |-> name,
                                                 func |-> func]]
                   ELSE runLater
    /\ UNCHANGED <<g_rpc_running, fRPCInWarmup, rpcWarmupStatus, mapCommands,
                   commands, commandsReaders, active_commands, hashOrder, callLog>>
    /\ UNCHANGED <<timerInterface, deadlineTimers, authCookie, g_rpcSignals, mainPc>>
    /\ UNCHANGED thVars

\* deadlineTimers.erase(name): the unique_ptr of an erased element destroys
\* its timer.
RunLaterErase(t) ==
    /\ runLater[t].at = "erase"
    /\ deadlineTimers' = EraseTimer(deadlineTimers, runLater[t].name)
    /\ eventLog' = IF runLater[t].name \in DOMAIN deadlineTimers
                   THEN Append(eventLog, [ev |-> "destroy",
                                          id |-> deadlineTimers[runLater[t].name].id])
                   ELSE eventLog
    /\ runLater' = [runLater EXCEPT ![t].at = "new"]
    /\ UNCHANGED <<g_rpc_running, fRPCInWarmup, rpcWarmupStatus, mapCommands,
                   commands, commandsReaders, active_commands, hashOrder, callLog>>
    /\ UNCHANGED <<timerInterface, authCookie, g_rpcSignals, mainPc>>
    /\ UNCHANGED thVars

\* timerInterface->NewTimer(func, nSeconds * 1000): the timers are numbered
\* in the order of their creation.  Through a null timerInterface the call
\* is a null dereference and no step of the program.
RunLaterNewTimer(t) ==
    /\ runLater[t].at = "new"
    /\ timerInterface # NoInterface
    /\ LET timer == [id |-> CountEvents("create") + 1, iface |-> timerInterface,
                     func |-> runLater[t].func]
       IN /\ runLater' = [runLater EXCEPT ![t] =
                             [at |-> "emplace", name |-> runLater[t].name,
                              func |-> runLater[t].func, timer |-> timer]]
          /\ eventLog' = Append(eventLog, [ev |-> "create", id |-> timer.id,
                                           name |-> runLater[t].name])
    /\ UNCHANGED <<g_rpc_running, fRPCInWarmup, rpcWarmupStatus, mapCommands,
                   commands, commandsReaders, active_commands, hashOrder, callLog>>
    /\ UNCHANGED <<timerInterface, deadlineTimers, authCookie, g_rpcSignals, mainPc>>
    /\ UNCHANGED thVars

\* deadlineTimers.emplace(name, unique_ptr(timer)): emplace keeps an element
\* that is already stored under name, and the unique_ptr that was not moved
\* into the map destroys the new timer.
RunLaterEmplace(t) ==
    /\ runLater[t].at = "emplace"
    /\ deadlineTimers' = MapInsert(deadlineTimers, runLater[t].name, runLater[t].timer)
    /\ eventLog' = IF runLater[t].name \in DOMAIN deadlineTimers
                   THEN Append(eventLog, [ev |-> "destroy", id |-> runLater[t].timer.id])
                   ELSE eventLog
    /\ runLater' = [runLater EXCEPT ![t] = NoCall]
    /\ UNCHANGED <<g_rpc_running, fRPCInWarmup, rpcWarmupStatus, mapCommands,
                   commands, commandsReaders, active_commands, hashOrder, callLog>>
    /\ UNCHANGED <<timerInterface, authCookie, g_rpcSignals, mainPc>>
    /\ UNCHANGED thVars

(***************************************************************************)
(* Specification SpecTimers: one thread installs and removes timer         *)
(* interfaces and calls RPCRunLater, one call after the other.             *)
(***************************************************************************)
TimerNames == {"n1", "n2"}
TimerFuncs == {"f", "g"}
TimerInterfaces == {"ifaceA", "ifaceB"}

NextTimers ==
    \/ \E iface \in TimerInterfaces :
          runLater[MainThread] = NoCall /\ RPCSetTimerInterfaceIfUnset(iface)
    \/ \E iface \in TimerInterfaces :
          runLater[MainThread] = NoCall /\ RPCSetTimerInterface(iface)
    \/ \E iface \in TimerInterfaces :
          runLater[MainThread] = NoCall /\ RPCUnsetTimerInterface(iface)
    \/ \E name \in TimerNames, func \in TimerFuncs : RPCRunLater(MainThread, name, func)
    \/ RunLaterErase(MainThread)
    \/ RunLaterNewTimer(MainThread)
    \/ RunLaterEmplace(MainThread)

SpecTimers == Init /\ [][NextTimers]_vars

(***************************************************************************)
(* C15, C16 (SpecTimers)                                                   *)
(***************************************************************************)
\* The entry of the log made by the last NewTimer for name, 0 if none
LastCreateOf(name) ==
    IF \E i \in 1..Len(eventLog) : eventLog[i].ev = "create" /\ eventLog[i].name = name
    THEN CHOOSE i \in 1..Len(eventLog) :
            /\ eventLog[i].ev = "create" /\ eventLog[i].name = name
            /\ \A j \in (i + 1)..Len(eventLog) :
                  ~(eventLog[j].ev = "create" /\ eventLog[j].name = name)
    ELSE 0

\* The last RPCRunLater call for name that did not throw, 0 if none
LastScheduleOf(name) ==
    IF \E i \in 1..Len(eventLog) :
          /\ eventLog[i].ev = "RPCRunLater" /\ eventLog[i].name = name
          /\ eventLog[i].result = NoOutcome
    THEN CHOOSE i \in 1..Len(eventLog) :
            /\ eventLog[i].ev = "RPCRunLater" /\ eventLog[i].name = name
            /\ eventLog[i].result = NoOutcome
            /\ \A j \in (i + 1)..Len(eventLog) :
                  ~(eventLog[j].ev = "RPCRunLater" /\ eventLog[j].name = name
                      /\ eventLog[j].result = NoOutcome)
    ELSE 0

Destroyed(id) == \E i \in 1..Len(eventLog) : eventLog[i].ev = "destroy" /\ eventLog[i].id = id

\* With no call in progress: a name holds a timer exactly if it was
\* scheduled, and the timer is the one the most recent call made, alive,
\* with that call's callback; every other timer made is destroyed.
C15_StoredIsLatest ==
    (\A t \in Threads : runLater[t] = NoCall) =>
        /\ \A name \in TimerNames :
              /\ name \in DOMAIN deadlineTimers <=> LastScheduleOf(name) # 0
              /\ name \in DOMAIN deadlineTimers =>
                    /\ LastCreateOf(name) > LastScheduleOf(name)
                    /\ deadlineTimers[name].id = eventLog[LastCreateOf(name)].id
                    /\ deadlineTimers[name].func = eventLog[LastScheduleOf(name)].func
                    /\ ~Destroyed(deadlineTimers[name].id)
        /\ \A i \in 1..Len(eventLog) :
              eventLog[i].ev = "create" =>
                  \/ Destroyed(eventLog[i].id)
                  \/ /\ eventLog[i].name \in DOMAIN deadlineTimers
                     /\ deadlineTimers[eventLog[i].name].id = eventLog[i].id

\* A step of a call for one name: the new timer is made only after the
\* stored one is gone, and the entries of other names stay.
C15_Step ==
    \A t \in Threads :
        runLater[t] # NoCall =>
            /\ (runLater[t].at = "new" /\ runLater'[t].at = "emplace") =>
                  /\ runLater[t].name \notin DOMAIN deadlineTimers
                  /\ \A i \in 1..Len(eventLog) :
                        (eventLog[i].ev = "create" /\ eventLog[i].name = runLater[t].name)
                            => Destroyed(eventLog[i].id)
            /\ \A other \in TimerNames \ {runLater[t].name} :
                  /\ other \in DOMAIN deadlineTimers' <=> other \in DOMAIN deadlineTimers
                  /\ other \in DOMAIN deadlineTimers =>
                        deadlineTimers'[other] = deadlineTimers[other]

\* C15: with a timer interface installed, after any sequence of RPCRunLater
\* calls the map holds one timer per scheduled name, the one made by the
\* most recent call for that name; the timer stored before is destroyed
\* before the new one is made, and the timers of other names are untouched.
C15_ReplaceByName == []C15_StoredIsLatest /\ [][C15_Step]_vars

\* C15 witness: n1 was scheduled twice and n2 once; the first timer is
\* destroyed, the third is stored under n1 and the second under n2.
C15_Witness ==
    /\ runLater[MainThread] = NoCall
    /\ DOMAIN deadlineTimers = {"n1", "n2"}
    /\ deadlineTimers["n1"].id = 3
    /\ deadlineTimers["n2"].id = 2
    /\ Destroyed(1)

\* A step that logs a call of RPCRunLater made with no interface installed
ThrowingCall ==
    /\ Len(eventLog') = Len(eventLog) + 1
    /\ eventLog'[Len(eventLog')].ev = "RPCRunLater"
    /\ timerInterface = NoInterface

C16_Step ==
    ThrowingCall =>
        /\ eventLog'[Len(eventLog')].result =
              ThrowRPC(JSONRPCError("RPC_INTERNAL_ERROR",
                                    Msg("No timer handler registered for RPC")))
        /\ UNCHANGED <<deadlineTimers, runLater, timerInterface>>

\* No call that found no interface goes on to erase or to make a timer
C16_NoWorkWithoutInterface ==
    \A t \in Threads :
        runLater[t] # NoCall =>
            \E i \in 1..Len(eventLog) :
                /\ eventLog[i].ev = "RPCRunLater"
                /\ eventLog[i].name = runLater[t].name
                /\ eventLog[i].result = NoOutcome

\* C16: RPCRunLater called while timerInterface is null - never set, or
\* unset again - throws RPC_INTERNAL_ERROR and leaves deadlineTimers as it
\* is: no timer is destroyed, also not one stored under the same name, and
\* none is made.
C16_NoInterfaceNoChange == []C16_NoWorkWithoutInterface /\ [][C16_Step]_vars

\* C16 witness: a timer is stored under n1, the interface was unset, and
\* the last call, for n1 again, threw; the stored timer is alive.
C16_Witness ==
    /\ timerInterface = NoInterface
    /\ "n1" \in DOMAIN deadlineTimers
    /\ ~Destroyed(deadlineTimers["n1"].id)
    /\ eventLog # <<>>
    /\ eventLog[Len(eventLog)].ev = "RPCRunLater"
    /\ eventLog[Len(eventLog)].name = "n1"
    /\ eventLog[Len(eventLog)].result.kind = "rpcerr"

(***************************************************************************)
(* Lifecycle signals and StopRPC                                           *)
(***************************************************************************)
\* void RPCServerSignals::OnStarted(std::function<void()> slot)
OnStarted(slot) ==
    /\ g_rpcSignals' = [g_rpcSignals EXCEPT !.Started = Append(@, slot)]
    /\ UNCHANGED <<g_rpc_running, fRPCInWarmup, rpcWarmupStatus, mapCommands,
                   commands, commandsReaders, active_commands, hashOrder, callLog>>
    /\ UNCHANGED <<timerInterface, deadlineTimers, authCookie, eventLog, mainPc, runLater>>
    /\ UNCHANGED thVars

\* void RPCServerSignals::OnStopped(std::function<void()> slot)
OnStopped(slot) ==
    /\ g_rpcSignals' = [g_rpcSignals EXCEPT !.Stopped = Append(@, slot)]
    /\ UNCHANGED <<g_rpc_running, fRPCInWarmup, rpcWarmupStatus, mapCommands,
                   commands, commandsReaders, active_commands, hashOrder, callLog>>
    /\ UNCHANGED <<timerInterface, deadlineTimers, authCookie, eventLog, mainPc, runLater>>
    /\ UNCHANGED thVars

\* The transport writes the authentication cookie file.
GenerateAuthCookie ==
    /\ authCookie' = TRUE
    /\ UNCHANGED <<g_rpc_running, fRPCInWarmup, rpcWarmupStatus, mapCommands,
                   commands, commandsReaders, active_commands, hashOrder, callLog>>
    /\ UNCHANGED <<timerInterface, deadlineTimers, g_rpcSignals, eventLog, mainPc, runLater>>
    /\ UNCHANGED thVars

\* void StopRPC(), first statement: deadlineTimers.clear() destroys every
\* stored timer.  The log notes which, and whether the cookie file existed.
StopRPC ==
    /\ mainPc = "idle"
    /\ deadlineTimers' = [n \in {} |-> NoCall]
    /\ eventLog' = Append(eventLog,
                          [ev |-> "clear",
                           ids |-> {deadlineTimers[n].id : n \in DOMAIN deadlineTimers},
                           cookie |-> authCookie])
    /\ mainPc' = "stop_cookie"
    /\ UNCHANGED <<g_rpc_running, fRPCInWarmup, rpcWarmupStatus, mapCommands,
                   commands, commandsReaders, active_commands, hashOrder, callLog>>
    /\ UNCHANGED <<timerInterface, authCookie, g_rpcSignals, runLater>>
    /\ UNCHANGED thVars

\* StopRPC, second statement: DeleteAuthCookie() removes the cookie file.
StopRPCDeleteAuthCookie ==
    /\ mainPc = "stop_cookie"
    /\ authCookie' = FALSE
    /\ mainPc' = "stop_signal"
    /\ UNCHANGED <<g_rpc_running, fRPCInWarmup, rpcWarmupStatus, mapCommands,
                   commands, commandsReaders, active_commands, hashOrder, callLog>>
    /\ UNCHANGED <<timerInterface, deadlineTimers, g_rpcSignals, eventLog, runLater>>
    /\ UNCHANGED thVars

\* StopRPC, third statement: g_rpcSignals.Stopped()
StopRPCStopped ==
    /\ mainPc = "stop_signal"
    /\ eventLog' = eventLog \o SlotEvents("Stopped", g_rpc_running,
                                          DOMAIN deadlineTimers, authCookie)
    /\ mainPc' = "idle"
    /\ UNCHANGED <<g_rpc_running, fRPCInWarmup, rpcWarmupStatus, mapCommands,
                   commands, commandsReaders, active_commands, hashOrder, callLog>>
    /\ UNCHANGED <<timerInterface, deadlineTimers, authCookie, g_rpcSignals, runLater>>
    /\ UNCHANGED thVars

(***************************************************************************)
(* Specification SpecStop: the thread that runs the server's life connects *)
(* slots, installs a timer interface, schedules timers, starts and stops   *)
(* the server, one call after the other.                                   *)
(***************************************************************************)
SlotIds == {"s1", "s2"}

\* The thread is between two calls, and the log leaves room for one more
Between ==
    /\ mainPc = "idle"
    /\ runLater[MainThread] = NoCall
    /\ Len(eventLog) < MaxEvents

\* Each slot is connected to a signal at most once
Connected(sig) == {g_rpcSignals[sig][i] : i \in 1..Len(g_rpcSignals[sig])}

NextStop ==
    \/ \E slot \in SlotIds \ Connected("Started") : Between /\ OnStarted(slot)
    \/ \E slot \in SlotIds \ Connected("Stopped") : Between /\ OnStopped(slot)
    \/ Between /\ GenerateAuthCookie
    \/ Between /\ RPCSetTimerInterface("ifaceA")
    \/ Between /\ RPCRunLater(MainThread, "n1", "f")
    \/ RunLaterErase(MainThread)
    \/ RunLaterNewTimer(MainThread)
    \/ RunLaterEmplace(MainThread)
    \/ Between /\ StartRPC
    \/ Between /\ StopRPC
    \/ StopRPCDeleteAuthCookie
    \/ StopRPCStopped

InitStop == Init /\ hashOrder = <<KeyA, KeyB, KeyC, KeyD, KeyX>>

SpecStop == InitStop /\ [][NextStop]_vars

(***************************************************************************)
(* C17                                                                     *)
(***************************************************************************)
\* The slot events that the step adds to the log
NewEvents == SubSeq(eventLog', Len(eventLog) + 1, Len(eventLog'))

StoppedSlotEvents ==
    {i \in DOMAIN eventLog : eventLog[i].ev = "slot" /\ eventLog[i].sig = "Stopped"}

\* Every observer of "stopped" ran with no timer stored and no cookie file
C17_ObserversSeeCleanState ==
    \A i \in StoppedSlotEvents :
        eventLog[i].timers = {} /\ eventLog[i].cookie = FALSE

\* Inside StopRPC the timers are gone before the cookie is deleted, and both
\* are gone before the signal is raised
C17_EffectsInOrder ==
    /\ mainPc = "stop_cookie" => DOMAIN deadlineTimers = {}
    /\ mainPc = "stop_signal" => DOMAIN deadlineTimers = {} /\ authCookie = FALSE

\* A step that runs observers runs every slot connected to the one signal,
\* once each, in the order in which they were connected; the observers of
\* "stopped" run only as the last statement of StopRPC
C17_Step ==
    (Len(eventLog') > Len(eventLog) /\ eventLog'[Len(eventLog')].ev = "slot") =>
        LET sig == eventLog'[Len(eventLog')].sig
        IN  /\ Len(NewEvents) = Len(g_rpcSignals[sig])
            /\ \A i \in 1..Len(NewEvents) :
                  /\ NewEvents[i].ev = "slot"
                  /\ NewEvents[i].sig = sig
                  /\ NewEvents[i].slot = g_rpcSignals[sig][i]
            /\ sig = "Stopped" => mainPc = "stop_signal" /\ mainPc' = "idle"

\* C17: StopRPC clears the timers, then deletes the cookie file, then raises
\* "stopped"; every observer of "stopped" runs with the timer map empty and
\* the cookie file deleted; the observers of one signal run in the order in
\* which they were connected.
C17_StopSequence ==
    /\ [](C17_ObserversSeeCleanState /\ C17_EffectsInOrder)
    /\ [][C17_Step]_vars

\* StopRPC found a stored timer and the cookie file, and has then run two
\* observers, the one connected first (s2) before the one connected second
C17_Witness ==
    /\ Len(eventLog) >= 3
    /\ g_rpcSignals.Stopped = <<"s2", "s1">>
    /\ LET n == Len(eventLog)
       IN  /\ eventLog[n - 2].ev = "clear"
           /\ eventLog[n - 2].ids # {}
           /\ eventLog[n - 2].cookie = TRUE
           /\ eventLog[n - 1].ev = "slot" /\ eventLog[n - 1].sig = "Stopped"
           /\ eventLog[n - 1].slot = "s2"
           /\ eventLog[n].ev = "slot" /\ eventLog[n].sig = "Stopped"
           /\ eventLog[n].slot = "s1"
    /\ mainPc = "idle"

(***************************************************************************)
(* Specification SpecHelp: the built-in table and commands of other        *)
(* subsystems, among them two categories one of which begins with the      *)
(* other, a hidden command and a command that has no usage text; one       *)
(* dispatch context asks for the overview and for single commands.         *)
(***************************************************************************)
cmdPing == [category |-> "net", name |-> "ping", actor |-> "usage", argNames |-> <<>>]
cmdZap == [category |-> "net", name |-> "zap", actor |-> "usage", argNames |-> <<>>]
cmdAddnode ==
    [category |-> "network", name |-> "addnode", actor |-> "usage", argNames |-> <<>>]
cmdSecret ==
    [category |-> "hidden", name |-> "secret", actor |-> "usage", argNames |-> <<>>]
HelpCommands == {cmdPing, cmdZap, cmdAddnode, cmdSecret, cmdEcho}

\* The table after appendCommand(cmd.name, &cmd) for each cmd of cmds
TableWith(cmds) ==
    [n \in DOMAIN CRPCTable \cup {cmd.name : cmd \in cmds} |->
        IF n \in DOMAIN CRPCTable THEN CRPCTable[n]
        ELSE CHOOSE cmd \in cmds : cmd.name = n]

RequestsHelp ==
    { WireRequest(TRUE, "help", Arr(<<>>)),
      WireRequest(TRUE, "help", Arr(<<Str("ping")>>)),
      WireRequest(TRUE, "help", Arr(<<Str("secret")>>)),
      WireRequest(TRUE, "help", Arr(<<Str("nosuch")>>)),
      WireRequest(TRUE, "help", Arr(<<Num(1)>>)),
      WireRequest(TRUE, "help", Arr(<<Str("ping"), Str("zap")>>)) }

InitHelp ==
    /\ g_rpc_running = TRUE
    /\ fRPCInWarmup = FALSE
    /\ rpcWarmupStatus = "RPC server started"
    /\ mapCommands \in {TableWith(cmds) : cmds \in SUBSET HelpCommands}
    /\ commands = [n \in {} |-> nullptr]
    /\ commandsReaders = {}
    /\ active_commands = <<>>
    /\ hashOrder = <<KeyA, KeyB, KeyC, KeyD, KeyX>>
    /\ ServiceInit
    /\ callLog = <<>>
    /\ ThreadInit

NextHelp ==
    \/ \E req \in RequestsHelp : JSONRPCExecBatch(MainThread, <<req>>)
    \/ JSONRPCExecOne(MainThread)
    \/ ExecuteCommandWarmup(MainThread)
    \/ ExecuteCommandFind(MainThread)
    \/ TableWarmup(MainThread)
    \/ TableFind(MainThread)
    \/ BeginExecution(MainThread)
    \/ CallReturn(MainThread)
    \/ EndExecution(MainThread)
    \/ ExecOneReturn(MainThread)
    \/ BatchReturn(MainThread)

SpecHelp == InitHelp /\ [][NextHelp]_vars

(***************************************************************************)
(* C18 (SpecHelp)                                                          *)
(***************************************************************************)
\* The handler of help has returned the overview, help("")
OverviewReturned ==
    /\ pc[MainThread] = "tbl_end"
    /\ jreq[MainThread].strMethod = "help"
    /\ size(jreq[MainThread].params) = 0
    /\ raised[MainThread].kind = "return"

Overview == raised[MainThread].val.v

\* The registered commands that the overview lists: not hidden, and with
\* a usage text
Listed ==
    {n \in DOMAIN mapCommands :
        /\ mapCommands[n].category # "hidden"
        /\ CallActor(mapCommands[n], NullUniValue, TRUE).kind = "stdex"}

Summary(n) == TextLine(Lines(CallActor(mapCommands[n], NullUniValue, TRUE).val)[1])

\* Where the overview shows the header of a category, the summary of a command
HeaderAt(category) == {i \in DOMAIN Overview : Overview[i] = HeaderLine(category)}
SummaryAt(n) == {i \in DOMAIN Overview : Overview[i] = Summary(n)}

\* (category, name) of m is before (category, name) of n
PairLess(m, n) ==
    \/ StringLess(Chars(mapCommands[m].category), Chars(mapCommands[n].category))
    \/ /\ mapCommands[m].category = mapCommands[n].category
       /\ StringLess(Chars(m), Chars(n))

\* C18: the overview help("") shows the header of every category that has
\* a listed command exactly once, the headers in ascending order of their
\* categories, the commands in ascending order of (category, name), and no
\* two blank lines one after the other.
C18_HelpOverview ==
    OverviewReturned =>
        /\ \A n \in Listed : Cardinality(HeaderAt(mapCommands[n].category)) = 1
        /\ \A m, n \in Listed :
              StringLess(Chars(mapCommands[m].category), Chars(mapCommands[n].category))
                 => \A i \in HeaderAt(mapCommands[m].category) :
                       \A j \in HeaderAt(mapCommands[n].category) : i < j
        /\ \A m, n \in Listed :
              PairLess(m, n) => \A i \in SummaryAt(m) : \A j \in SummaryAt(n) : i < j
        /\ \A i \in 1..(Len(Overview) - 1) :
              ~(Overview[i] = TextLine("") /\ Overview[i + 1] = TextLine(""))

(***************************************************************************)
(* C19 (Spec)                                                              *)
(***************************************************************************)
\* A dispatch has started and has not yet replied
DispatchInProgress == pc[MainThread] # "idle"

\* C19: once a dispatch has started, no appendCommand call succeeds: no
\* step changes the static registry mapCommands, so every lookup sees the
\* same mapping.
C19_StaticRegistryFrozen ==
    [][DispatchInProgress => mapCommands' = mapCommands]_vars

(***************************************************************************)
(* C20 (SpecArgs)                                                          *)
(***************************************************************************)
\* Declared name number p has two or more of its aliases among the keys
TwoAliases(argNames, params, p) ==
    Cardinality(AliasesOf(argNames, p) \cap KeysOf(params)) >= 2

\* The alias of declared name p that is listed first among those present
FirstListed(argNames, params, p) ==
    split(argNames[p])[CHOOSE i \in 1..Len(split(argNames[p])) :
                          /\ split(argNames[p])[i] \in KeysOf(params)
                          /\ \A j \in 1..(i - 1) :
                                split(argNames[p])[j] \notin KeysOf(params)]

\* A later-listed alias of declared name p that is present and is an alias
\* of no other declared name
OnlyOfGroup(argNames, params, p) ==
    {key \in (AliasesOf(argNames, p) \cap KeysOf(params))
                \ {FirstListed(argNames, params, p)} :
        \A q \in 1..Len(argNames) : key \in AliasesOf(argNames, q) => q = p}

\* C20 (as stated): when two aliases of one declared name are present, the
\* handler is called with the value of the first-listed one at the position
\* of that name.
C20_OrigStep ==
    \A t \in Threads :
        (Leaves(t, "tbl_begin") /\ isObject(jreq[t].params)) =>
            \A p \in 1..Len(pcmd[t].cmd.argNames) :
                TwoAliases(pcmd[t].cmd.argNames, jreq[t].params, p) =>
                    /\ pc'[t] = "tbl_call"
                    /\ raised'[t] = NoOutcome
                    /\ args'[t].t = "arr"
                    /\ Len(args'[t].v) >= p
                    /\ args'[t].v[p] =
                          ValueUnder(jreq[t].params,
                                     FirstListed(pcmd[t].cmd.argNames, jreq[t].params, p))

C20_FirstAliasReachesHandler == [][C20_OrigStep]_vars

C20_Step ==
    \A t \in Threads :
        (Leaves(t, "tbl_begin") /\ isObject(jreq[t].params)) =>
            LET P == pcmd[t].cmd.argNames
                O == jreq[t].params
            IN  \A p \in 1..Len(P) :
                    TwoAliases(P, O, p) =>
                        /\ IF pc'[t] = "tbl_call"
                           THEN /\ raised'[t] = NoOutcome
                                /\ args'[t].t = "arr"
                                /\ Len(args'[t].v) >= p
                                /\ args'[t].v[p] = ValueUnder(O, FirstListed(P, O, p))
                           ELSE FailsNaming(t, KeysOf(O) \ {FirstListed(P, O, p)})
                        /\ OnlyOfGroup(P, O, p) # {} =>
                              FailsNaming(t, UnmatchedKeys(P, O) \cup SurplusAliases(P, O))

\* C20 (amended): when two or more aliases of one declared name are among
\* the keys, the walk takes the first-listed one that is present and leaves
\* the others in the working mapping.  If one of those is an alias of no
\* other declared name the dispatch fails with RPC_INVALID_PARAMETER
\* "Unknown named parameter <key>", <key> being a leftover key and never
\* the alias that was taken, and the handler is not called.  The handler is
\* called only if every leftover alias is taken by another declared name,
\* and then finds the value of the first-listed alias at the position.
C20_FirstAliasTakenRestLeftOver == [][C20_Step]_vars

\* C20 witness: {b:2, c:3} was sent to "echo", whose second declared name
\* is b|c; the reply names c and the handler was never entered.
C20_Witness ==
    /\ Replied(MainThread)
    /\ pcmd[MainThread].kind = "static"
    /\ pcmd[MainThread].cmd = cmdEcho
    /\ jreq[MainThread].params = Obj(<<KeyB, KeyC>>, <<Num(2), Num(3)>>)
    /\ args[MainThread] = NullUniValue
    /\ LastReply(MainThread).error =
          JSONRPCError("RPC_INVALID_PARAMETER", MsgCat("Unknown named parameter ", KeyC))

(***************************************************************************)
(* Specification SpecRace: after a timer interface is installed, every     *)
(* dispatch context calls RPCRunLater for the same name; the statements of *)
(* the calls interleave freely, each statement taken as one step.          *)
(***************************************************************************)
RaceName == "n1"

NextRace ==
    \/ timerInterface = NoInterface /\ RPCSetTimerInterface("ifaceA")
    \/ \E t \in Threads : RPCRunLater(t, RaceName, "f")
    \/ \E t \in Threads : RunLaterErase(t)
    \/ \E t \in Threads : RunLaterNewTimer(t)
    \/ \E t \in Threads : RunLaterEmplace(t)

SpecRace == InitStop /\ [][NextRace]_vars

(***************************************************************************)
(* C21 (SpecRace)                                                          *)
(***************************************************************************)
\* Thread t executes the last statement of its call: the insert
Inserts(t) == runLater[t].at = "emplace" /\ runLater'[t] = NoCall

\* The insert of a call puts the timer of that call under the name
C21_Step ==
    \A t \in Threads :
        Inserts(t) =>
            /\ runLater[t].name \in DOMAIN deadlineTimers'
            /\ deadlineTimers'[runLater[t].name] = runLater[t].timer

\* Every call that did not throw has returned
AllReturned == \A t \in Threads : runLater[t] = NoCall

\* With every call returned, a scheduled name holds one live timer and
\* every other timer made is destroyed
C21_OneLiveTimer ==
    AllReturned =>
        /\ LastScheduleOf(RaceName) # 0 =>
              /\ RaceName \in DOMAIN deadlineTimers
              /\ ~Destroyed(deadlineTimers[RaceName].id)
        /\ \A i \in 1..Len(eventLog) :
              eventLog[i].ev = "create" =>
                  \/ Destroyed(eventLog[i].id)
                  \/ /\ RaceName \in DOMAIN deadlineTimers
                     /\ deadlineTimers[RaceName].id = eventLog[i].id

\* C21: for concurrent RPCRunLater calls with the same name, in every
\* interleaving of their statements (erase, NewTimer, emplace) one timer is
\* stored under the name when all have returned, and it is the timer of
\* the call whose insert happened last: no insert leaves an older timer
\* stored and drops its own.
C21_ConcurrentScheduleSafe == []C21_OneLiveTimer /\ [][C21_Step]_vars

(***************************************************************************)
(* Specification SpecTrack: a server that leaves warmup while its dispatch *)
(* contexts execute requests for the static command "fresh", for the       *)
(* context-bound command "echo" and for a name that is not registered;     *)
(* the steps of the dispatches interleave.                                 *)
(***************************************************************************)
RequestsTrack ==
    { WireRequest(TRUE, "fresh", Arr(<<>>)),
      WireRequest(TRUE, "fresh", Obj(<<KeyX>>, <<Num(5)>>)),
      WireRequest(TRUE, "echo", Arr(<<>>)),
      WireRequest(TRUE, "nosuch", Arr(<<>>)) }

InitTrack ==
    /\ g_rpc_running = TRUE
    /\ fRPCInWarmup = TRUE
    /\ rpcWarmupStatus = "RPC server started"
    /\ mapCommands = MapAssign(CRPCTable, "fresh", cmdEcho)
    /\ commands = MapInsert([n \in {} |-> nullptr], "echo", dynEcho)
    /\ commandsReaders = {}
    /\ active_commands = <<>>
    /\ hashOrder = <<KeyA, KeyB, KeyC, KeyD, KeyX>>
    /\ ServiceInit
    /\ callLog = <<>>
    /\ ThreadInit

NextTrack ==
    \/ SetRPCWarmupFinished
    \/ \E t \in Threads :
        \/ \E req \in RequestsTrack : JSONRPCExecBatch(t, <<req>>)
        \/ JSONRPCExecOne(t)
        \/ ExecuteCommandWarmup(t)
        \/ ExecuteCommandFind(t)
        \/ ExecuteReturn(t)
        \/ TableWarmup(t)
        \/ TableFind(t)
        \/ BeginExecution(t)
        \/ CallReturn(t)
        \/ EndExecution(t)
        \/ ExecOneReturn(t)
        \/ BatchReturn(t)

SpecTrack == InitTrack /\ [][NextTrack]_vars

(***************************************************************************)
(* C22 (SpecTrack)                                                         *)
(***************************************************************************)
\* The position of thread t's entry in the tracker list
EntryOf(t) == {i \in 1..Len(active_commands) : active_commands[i].node = it[t]}

\* The list without the entry that has the node, the others in their order
Without(list, node) == SelectSeq(list, LAMBDA e : e.node # node)

\* The entries and the dispatches inside the tracked region correspond one
\* to one; a dispatch outside of it - rejected by warmup, method not found,
\* resolved to a context-bound command, or over - has no entry
C22_OneToOne ==
    /\ Len(active_commands) = Cardinality({t \in Threads : Tracked(t)})
    /\ \A t \in Threads :
          IF Tracked(t)
          THEN /\ Cardinality(EntryOf(t)) = 1
               /\ \A i \in EntryOf(t) : active_commands[i].method = jreq[t].strMethod
               /\ pcmd[t].kind = "static"
               /\ fRPCInWarmup = FALSE
               /\ \A u \in Threads \ {t} : Tracked(u) => it[u] # it[t]
          ELSE it[t] = NoNode

\* A dispatch that enters the tracked region puts its entry at the end of
\* the list; one that leaves it takes out its own entry and no other; no
\* other step changes the list
C22_Step ==
    \A t \in Threads :
        /\ (~Tracked(t) /\ Tracked(t)') =>
              active_commands' =
                  Append(active_commands,
                         [node |-> it'[t], method |-> jreq[t].strMethod])
        /\ (Tracked(t) /\ ~Tracked(t)') =>
              /\ active_commands' = Without(active_commands, it[t])
              /\ Len(active_commands') = Len(active_commands) - 1
        /\ ((\A u \in Threads : Tracked(u) <=> Tracked(u)') /\ pc'[t] # pc[t]) =>
              active_commands' = active_commands

\* C22: in every reachable state the tracker list holds exactly one entry
\* for each dispatch of a static command that is between the construction
\* and the destruction of its RPCCommandExecution, in the order in which
\* they entered; each dispatch removes its own entry, also when another
\* dispatch in flight has the same method name; a dispatch rejected by
\* warmup or as method not found, or resolved to a context-bound command,
\* never adds an entry.
C22_TrackerOneToOne == []C22_OneToOne /\ [][C22_Step]_vars

\* C22 witness: two dispatches of "fresh" were in flight together; the one
\* that entered first has returned and the entry of the other, made
\* second, is the only one left.
C22_Witness ==
    \E t, u \in Threads :
        /\ t # u
        /\ pc[t] = "batch_done"
        /\ jreq[t].strMethod = "fresh"
        /\ raised[t].kind = "return"
        /\ pc[u] = "tbl_call"
        /\ jreq[u].strMethod = "fresh"
        /\ it[u] = 2
        /\ active_commands = <<[node |-> 2, method |-> "fresh"]>>

====
